---- MODULE Spec2Model ----
(***************************************************************************)
(* Unit of work over database/sql (package dbtx and its earlier revisions). *)
(*                                                                         *)
(* The repository holds several revisions of the unit of work.  The model  *)
(* carries the revision as a state variable fixed by Init:                  *)
(*   "A"  src/dbtx.go:1-118     Atomic{db, fns}; RunInTx with              *)
(*        `defer tx.Rollback()`; context of src/unnamed/part_022           *)
(*   "B"  src/dbtx.go:120-279   Atomic{tx, db}; RunInTx helper with        *)
(*        recover(); panics with ErrNestedTransaction                      *)
(*   "U"  src/unnamed/part_003:1-180  UnitOfWork{tx, db}; returns          *)
(*        ErrNestedTransaction                                             *)
(*   "P"  src/unnamed/part_011  Atomic{tx, db}; a Tx-variant receiver      *)
(*        binds itself and runs the body                                   *)
(* A call chain is a goroutine calling the library; the bodies it passes   *)
(* to RunInTx call the library again, return an error or nil, or panic.    *)
(***************************************************************************)
EXTENDS Integers, Sequences, FiniteSets, TLC

\* ------------------------------------------------------------------ bounds

\* Driver transactions the pool may begin in one run.
MaxTx == 2
\* RunInTx invocations that may be active at once on one call chain.
MaxDepth == 3
Chains == {"main"}
Revisions == {"A", "B", "U", "P"}
TxIds == 1..MaxTx

\* ------------------------------------------------------------------ values

Nil == "nil"
NoPanic == "none"

\* Errors of the library.
ErrNestedTransaction == "ErrNestedTransaction"
ErrNotTransaction == "ErrNotTransaction"
ErrNonTransaction == "ErrNonTransaction"
ErrIsTransaction == "ErrIsTransaction"
\* Errors of the driver.
ErrBeginFailed == "driver: begin failed"
ErrCommitFailed == "driver: commit failed"
ErrRollbackFailed == "driver: rollback failed"
ErrTxDone == "sql: transaction has already been committed or rolled back"
\* What a body returns or panics with.
BodyErrors == {"ErrIntentional"}
BodyPanics == {"server error"}

\* A unit of work owns the pool or one transaction; a connection handle has
\* the same two variants.  None is the absent value (nil, or ok = false).
None == [kind |-> "none", tx |-> 0]
Pool == [kind |-> "db", tx |-> 0]
TxOf(t) == [kind |-> "tx", tx |-> t]

UowSet == {None, Pool} \cup {TxOf(t) : t \in TxIds}
ContextSet == [bind : UowSet, depth : 0..MaxDepth]

Background == [bind |-> None, depth |-> 0]

\* ------------------------------------------------------- context (ambient tx)

\* Atomic.IsTx / UnitOfWork.isTx: the receiver holds a transaction.
AtomicIsTx(a) == a.kind = "tx"

\* context.WithValue under the unit-of-work key.
WithValue(ctx, atm) == [ctx EXCEPT !.bind = atm]

\* NewTx / newTx / &Tx{tx: tx}: the Tx-variant unit of work around tx.
NewTx(tx) == TxOf(tx)

\* The lookup under the key: <<value, ok>>.
Lookup(ctx) == <<ctx.bind, ctx.bind.kind # "none">>

\* Revision A: IsTx is the presence of the *Tx value.
IsTxA(ctx) == Lookup(ctx)[2]

\* Revision A: Value returns the handle of the bound *Tx.
ValueA(ctx) ==
    IF ~Lookup(ctx)[2] THEN <<None, FALSE>> ELSE <<Lookup(ctx)[1], TRUE>>

\* Revisions B and P: Value returns the bound *Atomic.
ValueB(ctx) == Lookup(ctx)

\* Revisions B and P: IsTx is ok && a.IsTx().
IsTxB(ctx) == ValueB(ctx)[2] /\ AtomicIsTx(ValueB(ctx)[1])

\* Revision U: isTxContext.
isTxContext(ctx) == Lookup(ctx)[2] /\ AtomicIsTx(Lookup(ctx)[1])

\* Revision B: the re-entrant branch counts the nesting in the context.
IncDepth(ctx) == [ctx EXCEPT !.depth = ctx.depth + 1]

\* --------------------------------------------------------- connection handles

\* A handle getter yields [handle, pan]: the handle, or the value it panics with.
Handle(h) == [handle |-> h, pan |-> NoPanic]
Panics(p) == [handle |-> None, pan |-> p]

\* Revision A, Tx.underlying: the handle of the bound transaction.
underlyingTx(t) == [kind |-> "tx", tx |-> t.tx]

\* Revisions B, U, P, underlying: the transaction if there is one, else the pool.
underlying(a) == IF AtomicIsTx(a) THEN [kind |-> "tx", tx |-> a.tx] ELSE Pool

\* Revision A, Atomic.DB.
DBA(a) == Handle(Pool)

\* Atomic.DBTx that panics, as Tx does, when the context has no transaction.
DBTxARequiresTx(a, ctx) ==
    IF ValueA(ctx)[2]
    THEN Handle(underlyingTx(ValueA(ctx)[1]))
    ELSE Panics(ErrNotTransaction)

\* Revision A, Atomic.DBTx.
DBTxA(a, ctx) ==
    IF ValueA(ctx)[2] THEN Handle(underlyingTx(ValueA(ctx)[1])) ELSE DBA(a)

\* Revision A, Atomic.Tx.
TxA(a, ctx) ==
    IF ~ValueA(ctx)[2]
    THEN Panics(ErrNotTransaction)
    ELSE Handle(underlyingTx(ValueA(ctx)[1]))

\* Atomic.DB without the check of the receiver's variant.
DBBUnchecked(a, ctx) == Handle(underlying(a))

\* Revision B, Atomic.DB.
DBB(a, ctx) ==
    IF AtomicIsTx(a) THEN Panics(ErrIsTransaction) ELSE Handle(underlying(a))

\* Atomic.DBTx that never looks at the context.
DBTxBIgnoresContext(a, ctx) == Handle(underlying(a))

\* Revision B, Atomic.DBTx.
DBTxB(a, ctx) ==
    IF ValueB(ctx)[2]
    THEN Handle(underlying(ValueB(ctx)[1]))
    ELSE Handle(underlying(a))

\* Atomic.Tx that falls back to the receiver instead of panicking.
TxBFallsBack(a, ctx) ==
    IF ValueB(ctx)[2] /\ AtomicIsTx(ValueB(ctx)[1])
    THEN Handle(underlying(ValueB(ctx)[1]))
    ELSE Handle(underlying(a))

\* Revision B, Atomic.Tx.
TxB(a, ctx) ==
    IF ValueB(ctx)[2] /\ AtomicIsTx(ValueB(ctx)[1])
    THEN Handle(underlying(ValueB(ctx)[1]))
    ELSE Panics(ErrNonTransaction)

\* Revision U, UnitOfWork.DB(ctx).
DBU(uow, ctx) ==
    IF Lookup(ctx)[2]
    THEN Handle(underlying(Lookup(ctx)[1]))
    ELSE Handle(underlying(uow))

\* Revision P, Atomic.DB(ctx).
DBP(a, ctx) ==
    IF ValueB(ctx)[2]
    THEN Handle(underlying(ValueB(ctx)[1]))
    ELSE Handle(underlying(a))

\* The methods a revision offers, and the call of one of them.
Methods(r) == IF r \in {"A", "B"} THEN {"DB", "DBTx", "Tx"} ELSE {"DB"}

Get(r, m, a, ctx) ==
    CASE r = "A" /\ m = "DB" -> DBA(a)
      [] r = "A" /\ m = "DBTx" -> DBTxA(a, ctx)
      [] r = "A" /\ m = "Tx" -> TxA(a, ctx)
      [] r = "B" /\ m = "DB" -> DBB(a, ctx)
      [] r = "B" /\ m = "DBTx" -> DBTxB(a, ctx)
      [] r = "B" /\ m = "Tx" -> TxB(a, ctx)
      [] r = "U" -> DBU(a, ctx)
      [] OTHER -> DBP(a, ctx)

\* ------------------------------------------------------------------ RunInTx

\* What RunInTx does before the body runs:
\*   "reenter"  run the body on the context's transaction
\*   "reuse"    bind the receiver's transaction and run the body (P)
\*   "begin"    begin a transaction on the pool, bind it, run the body
\*   "fail"     return err
\*   "panic"    panic with pan
Plan(mode, child, err, pan) ==
    [mode |-> mode, child |-> child, err |-> err, pan |-> pan]

\* Atomic.RunInTx without the re-entrant branch.
RunInTxAAlwaysBegins(a, ctx) == Plan("begin", ctx, Nil, NoPanic)

\* Revision A, Atomic.RunInTx up to BeginTx.
RunInTxA(a, ctx) ==
    IF IsTxA(ctx)
    THEN Plan("reenter", ctx, Nil, NoPanic)
    ELSE Plan("begin", ctx, Nil, NoPanic)

\* Revision B, Atomic.RunInTx.
RunInTxB(a, ctx) ==
    IF IsTxB(ctx) THEN Plan("reenter", IncDepth(ctx), Nil, NoPanic)
    ELSE IF AtomicIsTx(a) THEN Plan("panic", ctx, Nil, ErrNestedTransaction)
    ELSE Plan("begin", ctx, Nil, NoPanic)

\* Revision U, UnitOfWork.RunInTx up to BeginTx.
RunInTxU(uow, ctx) ==
    IF isTxContext(ctx) THEN Plan("reenter", ctx, Nil, NoPanic)
    ELSE IF AtomicIsTx(uow) THEN Plan("fail", ctx, ErrNestedTransaction, NoPanic)
    ELSE Plan("begin", ctx, Nil, NoPanic)

\* Revision P, Atomic.RunInTx up to BeginTx.
RunInTxP(a, ctx) ==
    IF IsTxB(ctx) THEN Plan("reenter", ctx, Nil, NoPanic)
    ELSE IF AtomicIsTx(a) THEN Plan("reuse", WithValue(ctx, a), Nil, NoPanic)
    ELSE Plan("begin", ctx, Nil, NoPanic)

RunInTxPlan(r, a, ctx) ==
    CASE r = "A" -> RunInTxA(a, ctx)
      [] r = "B" -> RunInTxB(a, ctx)
      [] r = "U" -> RunInTxU(a, ctx)
      [] OTHER -> RunInTxP(a, ctx)

\* The context the body gets once the transaction tx is begun:
\* withValue(ctx, &Tx{tx}) / WithValue(ctx, NewTx(tx)).
ChildCtx(ctx, tx) == WithValue(ctx, NewTx(tx))

\* RunInTx that drops the error of BeginTx.
OnBeginDropsError(ctx, tx, beginErr) ==
    IF beginErr # Nil
    THEN [run |-> FALSE, ret |-> Nil, child |-> ctx]
    ELSE [run |-> TRUE, ret |-> Nil, child |-> WithValue(ctx, NewTx(tx))]

\* RunInTx right after BeginTx returned (tx, beginErr): `if err != nil
\* { return err }`, else the body runs with the child context.
OnBegin(ctx, tx, beginErr) ==
    IF beginErr # Nil
    THEN [run |-> FALSE, ret |-> beginErr, child |-> ctx]
    ELSE [run |-> TRUE, ret |-> Nil, child |-> ChildCtx(ctx, tx)]

\* A body's outcome: it returned nil, returned an error, or panicked.
Returned(e) == [kind |-> IF e = Nil THEN "nil" ELSE "err", val |-> e]
Panicked(p) == [kind |-> "panic", val |-> p]
NoOutcome == [kind |-> "none", val |-> Nil]

\* What RunInTx does once the body is over, for a transaction it began:
\* the driver calls in order, what it returns and what it panics with.
\* commitErr and rollbackErr are the results of Commit and of Rollback; a
\* panic leaves the returned value unobserved.
Exit(calls, ret, pan) == [calls |-> calls, ret |-> ret, pan |-> pan]

\* Revision A calling tx.Rollback() on the failure paths only.
DeferARollbackOnFailure(out, commitErr, rollbackErr) ==
    CASE out.kind = "panic" -> Exit(<<"Rollback">>, Nil, out.val)
      [] out.kind = "err" -> Exit(<<"Rollback">>, out.val, NoPanic)
      [] OTHER -> Exit(<<"Commit">>, commitErr, NoPanic)

\* Revision A ending in `return nil` instead of `return tx.Commit()`.
DeferASkipsCommit(out, commitErr, rollbackErr) ==
    CASE out.kind = "panic" -> Exit(<<"Rollback">>, Nil, out.val)
      [] out.kind = "err" -> Exit(<<"Rollback">>, out.val, NoPanic)
      [] OTHER -> Exit(<<"Rollback">>, Nil, NoPanic)

\* Revision A calling tx.Commit() and returning nil whatever it returned.
DeferADropsCommitError(out, commitErr, rollbackErr) ==
    CASE out.kind = "panic" -> Exit(<<"Rollback">>, Nil, out.val)
      [] out.kind = "err" -> Exit(<<"Rollback">>, out.val, NoPanic)
      [] OTHER -> Exit(<<"Commit", "Rollback">>, Nil, NoPanic)

\* Revision A: `defer tx.Rollback()`, then `return err` or `return tx.Commit()`.
DeferA(out, commitErr, rollbackErr) ==
    CASE out.kind = "panic" -> Exit(<<"Rollback">>, Nil, out.val)
      [] out.kind = "err" -> Exit(<<"Rollback">>, out.val, NoPanic)
      [] OTHER -> Exit(<<"Commit", "Rollback">>, commitErr, NoPanic)

\* The deferred function with the test `err != nil` dropped: an error
\* returned by the body is followed by Commit.
DeferBCommitsOnError(out, commitErr, rollbackErr) ==
    CASE out.kind = "panic" -> Exit(<<"Rollback">>, rollbackErr, out.val)
      [] out.kind = "err" -> Exit(<<"Commit">>, commitErr, NoPanic)
      [] OTHER -> Exit(<<"Commit">>, commitErr, NoPanic)

\* The deferred function with `err = tx.Rollback()` in the error branch.
DeferBReturnsRollbackError(out, commitErr, rollbackErr) ==
    CASE out.kind = "panic" -> Exit(<<"Rollback">>, rollbackErr, out.val)
      [] out.kind = "err" -> Exit(<<"Rollback">>, rollbackErr, NoPanic)
      [] OTHER -> Exit(<<"Commit">>, commitErr, NoPanic)

\* Revisions B, U, P: the deferred recover / rollback / commit.
DeferB(out, commitErr, rollbackErr) ==
    CASE out.kind = "panic" -> Exit(<<"Rollback">>, rollbackErr, out.val)
      [] out.kind = "err" -> Exit(<<"Rollback">>, out.val, NoPanic)
      [] OTHER -> Exit(<<"Commit">>, commitErr, NoPanic)

RunInTxExit(r, out, commitErr, rollbackErr) ==
    IF r = "A"
    THEN DeferA(out, commitErr, rollbackErr)
    ELSE DeferB(out, commitErr, rollbackErr)

\* A re-entrant branch that would roll the transaction back when its body fails.
PassthroughRollsBack(out) ==
    IF out.kind = "panic"
    THEN Exit(<<>>, Nil, out.val)
    ELSE Exit(IF out.val = Nil THEN <<>> ELSE <<"Rollback">>, out.val, NoPanic)

\* The re-entrant and reuse branches are `return fn(ctx)`: no deferred call.
Passthrough(out) ==
    IF out.kind = "panic"
    THEN Exit(<<>>, Nil, out.val)
    ELSE Exit(<<>>, out.val, NoPanic)

\* ------------------------------------------------------------------- driver

\* database/sql: Commit and Rollback finish an open transaction whether or
\* not the driver reports an error; on a finished one both return ErrTxDone.
DriverCommit(st, fail) ==
    IF st # "open" THEN [st |-> st, err |-> ErrTxDone]
    ELSE IF fail THEN [st |-> "aborted", err |-> ErrCommitFailed]
    ELSE [st |-> "committed", err |-> Nil]

DriverRollback(st, fail) ==
    IF st # "open" THEN [st |-> st, err |-> ErrTxDone]
    ELSE IF fail THEN [st |-> "aborted", err |-> ErrRollbackFailed]
    ELSE [st |-> "rolledback", err |-> Nil]

\* database/sql: BeginTx hands out a transaction or fails.
DriverBegin(fail) == IF fail THEN ErrBeginFailed ELSE Nil

DriverCall(call, st, failC, failR) ==
    IF call = "Commit" THEN DriverCommit(st, failC) ELSE DriverRollback(st, failR)

\* The driver calls of one RunInTx exit, in order: the final state of the
\* transaction.
RECURSIVE RunCalls(_, _, _, _)
RunCalls(calls, st, failC, failR) ==
    IF calls = <<>>
    THEN st
    ELSE RunCalls(Tail(calls), DriverCall(Head(calls), st, failC, failR).st,
                  failC, failR)

\* -------------------------------------------------------------------- state

VARIABLES
    rev,        \* the revision of the library under analysis
    stack,      \* per call chain: the active RunInTx invocations, outermost first
    panicking,  \* per call chain: the value of the panic unwinding it, or NoPanic
    last,       \* per call chain: the library call that completed last in the
                \* body (or at the top) the chain is in
    txState,    \* per driver transaction: unused, open, committed, rolledback, aborted
    txWrites,   \* per driver transaction: it holds a statement not yet durable
    persisted,  \* per driver transaction: a statement of it was made durable
    nCommit,    \* per driver transaction: calls of Commit
    nRollback   \* per driver transaction: calls of Rollback

\* The state of the unit of work and of the driver.
txVars ==
    <<rev, stack, panicking, last, txState, txWrites, persisted, nCommit,
      nRollback>>

\* The middleware chain (revision A: Atomic{db, fns}, Tx{tx, fns}).
VARIABLES
    mwFns,      \* the wrapper factories given to New, in the order given
    mwStack,    \* the contexts of the active RunInTx bodies, outermost first
    mwGot       \* the getter called last, the handle it gave and the events
                \* of one method call through that handle

mwVars == <<mwFns, mwStack, mwGot>>

\* Advisory locks (package lock) taken by concurrent transactions.
VARIABLES
    lkPc,       \* per goroutine: "out" of RunInTx or "in" its body
    lkWait,     \* per goroutine: the key its Lock call is blocked on
    lkHeld,     \* per key: the transaction holding it in the database, or 0
    lkTook,     \* per goroutine: the keys its open transaction was granted
    lkLast      \* the last call that returned, blocked or ended a RunInTx

lkVars == <<lkPc, lkWait, lkHeld, lkTook, lkLast>>

\* The transactional outbox (package postgres/outbox) on one call chain.
VARIABLES
    obStack,    \* the active Outbox.RunInTx calls, outermost first: how each
                \* got its transaction and the messages staged in its buffer
    obTx,       \* the transaction of the outermost call
    obTable,    \* the durable rows of the outbox table, by ascending id
    obLast      \* the call of the package that returned last

\* One staging buffer shared by goroutines that hold the same context.
VARIABLES
    staging     \* the package revision, the buffer, each goroutine's Enqueue
                \* call and the buffer the body's caller saw last

obVars == <<obStack, obTx, obTable, obLast>>

\* Delivery of the outbox rows (Outbox.Process, OutBox.LoadAndDelete) by
\* concurrent workers, each in a transaction of its own.
VARIABLES
    prRev,      \* the revision of package postgres/outbox
    prTable,    \* the committed rows of the outbox table, by ascending id
    prInserted, \* every row inserted so far, by id: its length is the last
                \* value of the serial id
    prWork,     \* per worker: where its call is and the row its transaction
                \* deleted and still locks
    prLog,      \* the ids whose deletion was committed, in commit order
    prLast      \* the call that returned last

prVars == <<prRev, prTable, prInserted, prWork, prLog, prLast>>

\* The generic outbox (package outbox: Write inside the transaction, Flush
\* after it) on one call chain.
VARIABLES
    flStack,    \* the active Outbox.RunInTx calls, outermost first: how each
                \* got its transaction and the events queued in its buffer
    flTx,       \* the transaction of the outermost call and the events
                \* written through it
    flLog,      \* the calls of Flush: the events given, the events the call
                \* gave to Write and the state of the transaction by then
    flLast      \* what the Outbox.RunInTx that ended last returned

flVars == <<flStack, flTx, flLog, flLast>>

\* Locker (package lock): each call starts a worker goroutine that holds the
\* key in a transaction of its own.
VARIABLES
    lrCall,     \* per caller: where its Locker call is, which method it is
                \* and the error it returned
    lrWork,     \* per caller: where the worker of its call is, the result of
                \* lockFn, the holder the statement found and the worker's
                \* transaction
    lrDone,     \* per caller: the context of its call is cancelled
    lrHeld      \* per key: the transaction holding it in the database, or 0

lrVars == <<lrCall, lrWork, lrDone, lrHeld>>

\* One RunInTx on a context built with ReadOnly and IsolationLevel, which may
\* be cancelled while the body runs.
VARIABLES
    cxCtx,      \* the context: the values stored with WithValue, oldest first
    cxSet,      \* what ReadOnly and IsolationLevel were called with last
    cxPc,       \* "top" before RunInTx, "body" in its body, "returned" after
    cxTx,       \* the transaction: its state and the options BeginTx got
    cxDone,     \* the context is cancelled
    cxLast      \* what the body and RunInTx returned

cxVars == <<cxCtx, cxSet, cxPc, cxTx, cxDone, cxLast>>

\* Two units of work built with New over two pools, used on one call chain
\* whose bodies keep the contexts they were given.
VARIABLES
    scRun,      \* what the run is about: "one" atomic, one atomic whose
                \* bodies "kept" their contexts, or "two" atomics
    scStack,    \* the active RunInTx invocations, outermost first
    scTx,       \* per driver transaction: its state, the pool it was begun
                \* on, the statements it holds and whether a re-entrant
                \* invocation on it returned an error after a statement
    scDb        \* per pool: the statements that are durable

scVars == <<scRun, scStack, scTx, scDb>>

\* The Logger wrapper (logger.go) around a recording handle.
VARIABLES
    lgSink,     \* what the sink and the wrapped handle received, in order
    lgCalls     \* the method calls made on the wrapper, in order

lgVars == <<lgSink, lgCalls>>

\* The conversion of hashes into advisory lock keys (package lock, key.go).
VARIABLES
    kyIn,       \* the width and the two unsigned values under conversion
    kyOut       \* the two conversions, once computed

kyVars == <<kyIn, kyOut>>

\* UnitOfWork.AtomicTryLock (uow.go) called by concurrent goroutines.
VARIABLES
    tlCall,     \* per goroutine: where its AtomicTryLock is, what the
                \* statement scanned into locked, whether fn ran, the result
    tlHeld      \* the transaction holding the key in the database, or 0

tlVars == <<tlCall, tlHeld>>

extVars ==
    <<mwVars, lkVars, obVars, staging, prVars, flVars, lrVars, cxVars, scVars,
      lgVars, kyVars, tlVars>>

\* The packages added to the ones above.
newVars == <<scVars, lgVars, kyVars, tlVars>>

\* What the actions of one package leave alone.
mwRest ==
    <<txVars, lkVars, obVars, staging, prVars, flVars, lrVars, cxVars,
      newVars>>

lkRest ==
    <<txVars, mwVars, obVars, staging, prVars, flVars, lrVars, cxVars,
      newVars>>

obRest ==
    <<txVars, mwVars, lkVars, staging, prVars, flVars, lrVars, cxVars,
      newVars>>

stRest ==
    <<txVars, mwVars, lkVars, obVars, prVars, flVars, lrVars, cxVars,
      newVars>>

prRest ==
    <<txVars, mwVars, lkVars, obVars, staging, flVars, lrVars, cxVars,
      newVars>>

flRest ==
    <<txVars, mwVars, lkVars, obVars, staging, prVars, lrVars, cxVars,
      newVars>>

lrRest ==
    <<txVars, mwVars, lkVars, obVars, staging, prVars, flVars, cxVars,
      newVars>>

cxRest ==
    <<txVars, mwVars, lkVars, obVars, staging, prVars, flVars, lrVars,
      newVars>>

scRest ==
    <<txVars, mwVars, lkVars, obVars, staging, prVars, flVars, lrVars, cxVars,
      lgVars, kyVars, tlVars>>

lgRest ==
    <<txVars, mwVars, lkVars, obVars, staging, prVars, flVars, lrVars, cxVars,
      scVars, kyVars, tlVars>>

kyRest ==
    <<txVars, mwVars, lkVars, obVars, staging, prVars, flVars, lrVars, cxVars,
      scVars, lgVars, tlVars>>

tlRest ==
    <<txVars, mwVars, lkVars, obVars, staging, prVars, flVars, lrVars, cxVars,
      scVars, lgVars, kyVars>>

vars == <<txVars, extVars>>

\* One RunInTx invocation: the receiver as far as the invocation looked at
\* it (the re-entrant branch returns on the context alone: None), the
\* context it was called with, the context its body gets, the branch it
\* took, the transaction it began (0: none) and whether a re-entrant
\* invocation on that transaction ran inside another re-entrant invocation
\* on it.
Frame(recv, ctx, child, mode, tx) ==
    [recv |-> recv, ctx |-> ctx, child |-> child, mode |-> mode, tx |-> tx,
     nested |-> FALSE]

NoFrame == Frame(None, Background, Background, "none", 0)

\* A completed call: what was called, what it returned or panicked with, the
\* handle it gave out, and for RunInTx its invocation, the body's outcome,
\* whether the body was invoked, the driver calls made once the body was over
\* and whether the transaction held a statement by then.
Result(op, ret, pan, handle, frame, out, invoked, calls, wrote) ==
    [op |-> op, ret |-> ret, pan |-> pan, handle |-> handle, frame |-> frame,
     out |-> out, invoked |-> invoked, calls |-> calls, wrote |-> wrote]

NoResult ==
    Result("none", Nil, NoPanic, None, NoFrame, NoOutcome, FALSE, <<>>, FALSE)

\* A RunInTx that ended before its body ran.
Refused(frame, ret, pan) ==
    Result("RunInTx", ret, pan, None, frame, NoOutcome, FALSE, <<>>, FALSE)

\* The next transaction the pool hands out.
NextTx == 1 + Cardinality({t \in TxIds : txState[t] # "unused"})

\* The contexts a caller holds: the background context and, inside a body,
\* the context that body was given.
Contexts(c) ==
    {Background} \cup (IF stack[c] = <<>> THEN {} ELSE {stack[c][Len(stack[c])].child})

\* The units of work a caller holds: the one built over the pool and (where
\* Value is exported) the Tx-variant bound in a context it holds.
Receivers(c) ==
    {Pool}
        \cup (IF rev = "A"
              THEN {}
              ELSE {x.bind : x \in {y \in Contexts(c) : AtomicIsTx(y.bind)}})

\* The invocations of a chain once a re-entrant one on the context ctx is
\* added: the invocation that began the context's transaction records
\* whether another re-entrant invocation on it is active at that moment.
Reentered(frames, ctx) ==
    LET t == ctx.bind.tx
        inner == {j \in 1..Len(frames) :
                      frames[j].mode = "reenter" /\ frames[j].ctx.bind.tx = t}
    IN  [i \in 1..Len(frames) |->
            IF frames[i].tx = t /\ inner # {}
            THEN [frames[i] EXCEPT !.nested = TRUE]
            ELSE frames[i]]

Count(calls, call) == Cardinality({i \in 1..Len(calls) : calls[i] = call})

Top(c) == stack[c][Len(stack[c])]
Pop(c) == SubSeq(stack[c], 1, Len(stack[c]) - 1)

\* No RunInTx is active and the driver has handed out no transaction.
TxIdle ==
    /\ stack = [c \in Chains |-> <<>>]
    /\ panicking = [c \in Chains |-> NoPanic]
    /\ last = [c \in Chains |-> NoResult]
    /\ txState = [t \in TxIds |-> "unused"]
    /\ txWrites = [t \in TxIds |-> FALSE]
    /\ persisted = [t \in TxIds |-> FALSE]
    /\ nCommit = [t \in TxIds |-> 0]
    /\ nRollback = [t \in TxIds |-> 0]

\* No middleware is configured and no getter was called.
MwIdle ==
    /\ mwFns = <<>>
    /\ mwStack = <<>>
    /\ mwGot = [op |-> "none", ctx |-> None, depth |-> 0, handle |-> None,
                pan |-> NoPanic, events |-> <<>>]

\* The advisory lock keys the callers use.
Keys == {"k1", "k2"}

NoKey == "none"

\* A call of package lock, or the end of a RunInTx, as the caller saw it.
LkResult(op, p, key, ctx, ret, pan, sql, holder, blocked, after, freed) ==
    [op |-> op, proc |-> p, key |-> key, ctx |-> ctx, ret |-> ret, pan |-> pan,
     sql |-> sql, holder |-> holder, blocked |-> blocked, after |-> after,
     freed |-> freed]

LkNoResult ==
    LkResult("none", 0, NoKey, Background, Nil, NoPanic, "none", 0, FALSE,
             "none", {})

\* No goroutine is in a transaction and no key is held.
LkIdle ==
    /\ lkPc = [p \in TxIds |-> "out"]
    /\ lkWait = [p \in TxIds |-> NoKey]
    /\ lkHeld = [k \in Keys |-> 0]
    /\ lkTook = [p \in TxIds |-> {}]
    /\ lkLast = LkNoResult

\* The transaction of an outbox call: its driver state, the rows inserted in
\* it, those of them inserted by calls that returned nil, whether a body
\* wrote through it and whether an insert of staged messages failed in it.
ObTx(state, rows, done, wrote, failed) ==
    [state |-> state, rows |-> rows, done |-> done, wrote |-> wrote,
     failed |-> failed]

\* A call of package outbox as the caller saw it, with the buffers and the
\* table it found.
ObResult(op, outer, out, ret, pan, ob, insert, ok, target, msgs, frames, table) ==
    [op |-> op, outer |-> outer, out |-> out, ret |-> ret, pan |-> pan,
     ob |-> ob, insert |-> insert, ok |-> ok, target |-> target,
     msgs |-> msgs, stack |-> frames, table |-> table]

ObNoResult ==
    ObResult("none", FALSE, "none", Nil, NoPanic, <<>>, "none", FALSE, 0, <<>>,
             <<>>, <<>>)

\* Enqueue calls one goroutine may make on the shared buffer.
MaxCalls == 2

Goroutines == {"g1", "g2"}

\* The shared buffer of revision r: empty, no Enqueue call made or running,
\* not yet looked at.
Staging(r) ==
    [rev |-> r, buf |-> <<>>,
     pc |-> [g \in Goroutines |-> "idle"],
     next |-> [g \in Goroutines |-> <<>>],
     calls |-> [g \in Goroutines |-> 0],
     looked |-> FALSE, seen |-> <<>>]

\* No outbox call is active and the outbox table is empty.
ObIdle ==
    /\ obStack = <<>>
    /\ obTx = ObTx("unused", <<>>, <<>>, FALSE, FALSE)
    /\ obTable = <<>>
    /\ obLast = ObNoResult
    /\ staging = Staging("postgres")

\* The goroutines that deliver outbox rows.
Workers == {"w1", "w2"}

\* A call of Process, or a RunInTx around LoadAndDelete, as its caller saw
\* it: the worker, what it returned, the row it loaded (0: none), whether the
\* handler ran and what it returned, whether the deletion was committed, and
\* the table and the rows locked by others that its DELETE found.
PrResult(op, w, ret, row, invoked, handler, committed, found, skipped) ==
    [op |-> op, worker |-> w, ret |-> ret, row |-> row, invoked |-> invoked,
     handler |-> handler, committed |-> committed, found |-> found,
     skipped |-> skipped]

PrNoResult == PrResult("none", "none", Nil, 0, FALSE, Nil, FALSE, <<>>, {})

\* A worker outside a call.
PrOut == [pc |-> "idle", row |-> 0, found |-> <<>>, skipped |-> {}]

\* The outbox table is empty and no worker is in a call.
PrIdle ==
    /\ prRev = "Process"
    /\ prTable = <<>>
    /\ prInserted = <<>>
    /\ prWork = [w \in Workers |-> PrOut]
    /\ prLog = <<>>
    /\ prLast = PrNoResult

\* No call of the generic outbox is active and nothing was flushed.
FlIdle ==
    /\ flStack = <<>>
    /\ flTx = [state |-> "unused", written |-> <<>>]
    /\ flLog = <<>>
    /\ flLast = [op |-> "none", ret |-> Nil, outer |-> FALSE]

\* The goroutines that call Locker.Lock or Locker.TryLock, named by the
\* transaction the worker of the call gets.
Callers == {1, 2}

\* A caller that has not called yet, and the worker it has not started.
LrOut == [pc |-> "idle", op |-> "none", ret |-> Nil]

LrNoWorker == [pc |-> "none", err |-> Nil, saw |-> 0, tx |-> "unused"]

\* No Locker call was made and no key is held.
LrIdle ==
    /\ lrCall = [c \in Callers |-> LrOut]
    /\ lrWork = [c \in Callers |-> LrNoWorker]
    /\ lrDone = [c \in Callers |-> FALSE]
    /\ lrHeld = [k \in Keys |-> 0]

\* sql.LevelDefault, the zero value of sql.IsolationLevel.
LevelDefault == 0

\* sql.LevelLinearizable, the last isolation level.
LevelLinearizable == 7

\* No option is stored in the context, RunInTx was not called.
CxIdle ==
    /\ cxCtx = <<>>
    /\ cxSet = [isoSet |-> FALSE, iso |-> LevelDefault, roSet |-> FALSE,
                ro |-> FALSE]
    /\ cxPc = "top"
    /\ cxTx = [state |-> "unused",
               opts |-> [Isolation |-> LevelDefault, ReadOnly |-> FALSE]]
    /\ cxDone = FALSE
    /\ cxLast = [out |-> Nil, ret |-> Nil, cancelled |-> FALSE]

\* The atomics built with New, each named by its pool.
Atomics == {1, 2}

\* No RunInTx was called on either atomic and both databases are empty.
ScIdle ==
    /\ scRun = "one"
    /\ scStack = <<>>
    /\ scTx = [t \in TxIds |->
                  [state |-> "unused", pool |-> 0, rows |-> {},
                   failed |-> FALSE]]
    /\ scDb = [p \in Atomics |-> {}]

\* Nothing was called on the Logger.
LgIdle ==
    /\ lgSink = <<>>
    /\ lgCalls = <<>>

\* No hash is under conversion.
KyIdle ==
    /\ kyIn = [bits |-> 0, u |-> <<>>, v |-> <<>>]
    /\ kyOut = [done |-> FALSE, x |-> [val |-> <<>>, wrapped |-> FALSE],
                y |-> [val |-> <<>>, wrapped |-> FALSE]]

\* The goroutines that call AtomicTryLock on one key.
MaxCallers == 3
TlCallers == 1..MaxCallers

\* No goroutine has called AtomicTryLock and the key is free.
TlIdle ==
    /\ tlCall = [p \in TlCallers |->
                    [pc |-> "idle", locked |-> FALSE, ran |-> FALSE, ret |-> Nil]]
    /\ tlHeld = 0

NewIdle ==
    /\ ScIdle
    /\ LgIdle
    /\ KyIdle
    /\ TlIdle

Init ==
    /\ rev \in Revisions
    /\ TxIdle
    /\ MwIdle
    /\ LkIdle
    /\ ObIdle
    /\ PrIdle
    /\ FlIdle
    /\ LrIdle
    /\ CxIdle
    /\ NewIdle

\* ------------------------------------------------------------------ actions

\* A library call panics with p: inside a body the panic starts unwinding
\* the chain; at the top the caller recovers it.
Raise(c, p) ==
    panicking' = [panicking EXCEPT ![c] = IF stack[c] = <<>> THEN NoPanic ELSE p]

\* The body of a RunInTx starts: nothing has completed in it yet.
Enter(c, frames) ==
    /\ stack' = [stack EXCEPT ![c] = frames]
    /\ last' = [last EXCEPT ![c] = NoResult]
    /\ UNCHANGED panicking

\* a.RunInTx(ctx, body) up to the invocation of the body.
RunInTx(c, a, ctx) ==
    /\ panicking[c] = NoPanic
    /\ Len(stack[c]) < MaxDepth
    /\ LET plan == RunInTxPlan(rev, a, ctx) IN
       CASE plan.mode = "reenter" ->
              /\ Enter(c, Append(Reentered(stack[c], ctx),
                                 Frame(None, ctx, plan.child, "reenter", 0)))
              /\ UNCHANGED txState
         [] plan.mode = "reuse" ->
              /\ Enter(c, Append(stack[c], Frame(a, ctx, plan.child, "reuse", 0)))
              /\ UNCHANGED txState
         [] plan.mode = "fail" ->
              /\ last' = [last EXCEPT ![c] =
                     Refused(Frame(a, ctx, ctx, "fail", 0), plan.err, NoPanic)]
              /\ UNCHANGED <<stack, panicking, txState>>
         [] plan.mode = "panic" ->
              /\ last' = [last EXCEPT ![c] =
                     Refused(Frame(a, ctx, ctx, "panic", 0), Nil, plan.pan)]
              /\ Raise(c, plan.pan)
              /\ UNCHANGED <<stack, txState>>
         [] OTHER ->
              /\ NextTx \in TxIds
              /\ \E fail \in BOOLEAN :
                   LET b == OnBegin(ctx, NextTx, DriverBegin(fail)) IN
                   /\ txState' = [txState EXCEPT ![NextTx] =
                          IF fail THEN @ ELSE "open"]
                   /\ IF b.run
                      THEN Enter(c, Append(stack[c],
                               Frame(a, ctx, b.child, "begin",
                                     IF fail THEN 0 ELSE NextTx)))
                      ELSE /\ last' = [last EXCEPT ![c] =
                                  Refused(Frame(a, ctx, ctx, "begin", 0), b.ret, NoPanic)]
                           /\ UNCHANGED <<stack, panicking>>
    /\ UNCHANGED <<rev, txWrites, persisted, nCommit, nRollback>>
    /\ UNCHANGED extVars

\* The innermost RunInTx once its body is over with outcome out: the
\* deferred driver calls, the return to the caller or the re-panic.
Finish(c, out) ==
    LET f == Top(c)
        t == f.tx
    IN  \E failC, failR \in BOOLEAN :
          LET began == f.mode = "begin" /\ t # 0
              st == IF began THEN txState[t] ELSE "none"
              ex == IF f.mode = "begin"
                    THEN RunInTxExit(rev, out, DriverCommit(st, failC).err,
                                     DriverRollback(st, failR).err)
                    ELSE Passthrough(out)
              end == RunCalls(ex.calls, st, failC, failR)
              rest == Pop(c)
          IN  /\ stack' = [stack EXCEPT ![c] = rest]
              /\ last' = [last EXCEPT ![c] =
                     Result("RunInTx", ex.ret, ex.pan, None, f, out, TRUE,
                            ex.calls, began /\ txWrites[t])]
              /\ panicking' = [panicking EXCEPT ![c] =
                     IF rest = <<>> THEN NoPanic ELSE ex.pan]
              /\ IF began
                 THEN /\ txState' = [txState EXCEPT ![t] = end]
                      /\ txWrites' = [txWrites EXCEPT ![t] =
                             IF end = "open" THEN @ ELSE FALSE]
                      /\ persisted' = [persisted EXCEPT ![t] =
                             IF end = "committed" /\ st = "open" THEN txWrites[t] ELSE @]
                      /\ nCommit' = [nCommit EXCEPT ![t] =
                             @ + Count(ex.calls, "Commit")]
                      /\ nRollback' = [nRollback EXCEPT ![t] =
                             @ + Count(ex.calls, "Rollback")]
                 ELSE UNCHANGED <<txState, txWrites, persisted, nCommit, nRollback>>

\* The innermost body returns e (nil or an error).
Return(c, e) ==
    /\ panicking[c] = NoPanic
    /\ stack[c] # <<>>
    /\ Finish(c, Returned(e))
    /\ UNCHANGED <<rev, extVars>>

\* The innermost body panics with p.
Panic(c, p) ==
    /\ panicking[c] = NoPanic
    /\ stack[c] # <<>>
    /\ panicking' = [panicking EXCEPT ![c] = p]
    /\ UNCHANGED <<rev, stack, last, txState, txWrites, persisted, nCommit,
                   nRollback>>
    /\ UNCHANGED extVars

\* A panic unwinds the innermost RunInTx.
Unwind(c) ==
    /\ panicking[c] # NoPanic
    /\ stack[c] # <<>>
    /\ Finish(c, Panicked(panicking[c]))
    /\ UNCHANGED <<rev, extVars>>

\* ExecContext on a handle: an open transaction keeps the statement until it
\* is finished, a finished one refuses it with ErrTxDone.
ExecContext(h) ==
    IF h.kind = "tx" /\ txState[h.tx] = "open"
    THEN txWrites' = [txWrites EXCEPT ![h.tx] = TRUE]
    ELSE UNCHANGED txWrites

ExecErr(h) == IF h.kind = "tx" /\ txState[h.tx] # "open" THEN ErrTxDone ELSE Nil

\* A completed handle getter m.
Got(m, ret, pan, handle) ==
    Result(m, ret, pan, handle, NoFrame, NoOutcome, FALSE, <<>>, FALSE)

\* a.DB() / a.DBTx(ctx) / a.Tx(ctx) and a statement on the handle it gives.
Use(c, m, a, ctx) ==
    /\ panicking[c] = NoPanic
    /\ LET g == Get(rev, m, a, ctx) IN
       IF g.pan # NoPanic
       THEN /\ last' = [last EXCEPT ![c] = Got(m, Nil, g.pan, None)]
            /\ Raise(c, g.pan)
            /\ UNCHANGED txWrites
       ELSE /\ last' = [last EXCEPT ![c] =
                   Got(m, ExecErr(g.handle), NoPanic, g.handle)]
            /\ ExecContext(g.handle)
            /\ UNCHANGED panicking
    /\ UNCHANGED <<rev, stack, txState, persisted, nCommit, nRollback>>
    /\ UNCHANGED extVars

Next ==
    \E c \in Chains :
        \/ \E a \in Receivers(c), ctx \in Contexts(c) : RunInTx(c, a, ctx)
        \/ \E e \in {Nil} \cup BodyErrors : Return(c, e)
        \/ \E p \in BodyPanics : Panic(c, p)
        \/ Unwind(c)
        \/ \E m \in Methods(rev), a \in Receivers(c), ctx \in Contexts(c) :
               Use(c, m, a, ctx)

Spec == Init /\ [][Next]_vars

TypeOK ==
    /\ rev \in Revisions
    /\ \A c \in Chains :
         /\ Len(stack[c]) <= MaxDepth
         /\ \A i \in 1..Len(stack[c]) :
              /\ stack[c][i].ctx \in ContextSet
              /\ stack[c][i].child \in ContextSet
    /\ txState \in [TxIds -> {"unused", "open", "committed", "rolledback", "aborted"}]
    /\ txWrites \in [TxIds -> BOOLEAN]
    /\ persisted \in [TxIds -> BOOLEAN]
    /\ nCommit \in [TxIds -> 0..2]
    /\ nRollback \in [TxIds -> 0..2]

\* ------------------------------------------------------------------- claims

\* The context carries a transaction binding.
Bound(ctx) == ctx.bind.kind = "tx"

\* The last completed call of chain c is a RunInTx whose body ran.
IsExit(c) == last[c].op = "RunInTx" /\ last[c].invoked

\* The last completed call of chain c is a RunInTx that began a transaction.
Began(c) == IsExit(c) /\ last[c].frame.mode = "begin" /\ last[c].frame.tx # 0

\* The last completed call of chain c is a RunInTx whose BeginTx failed.
BeginFailed(c) ==
    /\ last[c].op = "RunInTx"
    /\ last[c].frame.mode = "begin"
    /\ last[c].frame.tx = 0

\* The revisions with the three getters DB, DBTx and Tx.
HasGetters == rev \in {"A", "B"}

\* C1: every RunInTx that began a transaction and whose body returned nil
\* has called Commit exactly once on that transaction; a re-entrant RunInTx
\* calls Commit zero times, so while the invocation that began a transaction
\* is still active no Commit has been called on it, however deep the
\* re-entrant calls beneath it went.
C1_CommitExactlyOnce ==
    \A c \in Chains :
        /\ (Began(c) /\ last[c].out.kind = "nil") =>
               /\ Count(last[c].calls, "Commit") = 1
               /\ nCommit[last[c].frame.tx] = 1
        /\ (IsExit(c) /\ last[c].frame.mode = "reenter") =>
               Count(last[c].calls, "Commit") = 0
        /\ \A i \in 1..Len(stack[c]) :
               stack[c][i].mode = "begin" => nCommit[stack[c][i].tx] = 0

\* C1 witness: an outermost RunInTx returned after a commit, and re-entrant
\* calls had nested two deep on its transaction.
C1_Witness ==
    \E c \in Chains :
        /\ Began(c)
        /\ stack[c] = <<>>
        /\ last[c].out.kind = "nil"
        /\ last[c].frame.nested
        /\ txState[last[c].frame.tx] = "committed"
        /\ nCommit[last[c].frame.tx] = 1

\* C2: every RunInTx that began a transaction and whose body returned an
\* error or panicked has called Rollback exactly once and Commit never on
\* that transaction, and no statement of the transaction is durable.
C2_RollbackOnFailure ==
    \A c \in Chains :
        (Began(c) /\ last[c].out.kind \in {"err", "panic"}) =>
            LET t == last[c].frame.tx IN
            /\ Count(last[c].calls, "Rollback") = 1
            /\ Count(last[c].calls, "Commit") = 0
            /\ nRollback[t] = 1
            /\ nCommit[t] = 0
            /\ txState[t] \in {"rolledback", "aborted"}
            /\ ~persisted[t]
            /\ ~txWrites[t]

\* C2 witness: a body wrote through its transaction and then panicked.
C2_Witness ==
    \E c \in Chains :
        /\ Began(c)
        /\ last[c].out.kind = "panic"
        /\ last[c].wrote
        /\ txState[last[c].frame.tx] = "rolledback"

\* C3: when the body returned an error RunInTx returns that error and does
\* not panic; when the body panicked RunInTx panics with that value; the
\* result of Rollback changes neither.
C3_OriginalFailureSurvives ==
    \A c \in Chains :
        IsExit(c) =>
            /\ last[c].out.kind = "err" =>
                   /\ last[c].ret = last[c].out.val
                   /\ last[c].ret # Nil
                   /\ last[c].pan = NoPanic
            /\ last[c].out.kind = "panic" => last[c].pan = last[c].out.val

\* C3 witness: the body returned an error and Rollback failed as well.
C3_Witness ==
    \E c \in Chains :
        /\ Began(c)
        /\ last[c].out.kind = "err"
        /\ last[c].ret \in BodyErrors
        /\ txState[last[c].frame.tx] = "aborted"
        /\ nRollback[last[c].frame.tx] = 1

\* What C4 says of RunInTx apart from the context the body gets: a call
\* whose context carries a transaction binding takes the re-entrant branch
\* and begins nothing, returns the body's result without a driver call, and
\* along a chain of calls that each pass on the context they were given only
\* the outermost call begins a transaction.
ReentrantRest(c) ==
    /\ \A i \in 1..Len(stack[c]) :
           Bound(stack[c][i].ctx) =>
               /\ stack[c][i].mode = "reenter"
               /\ stack[c][i].tx = 0
               /\ stack[c][i].child.bind = stack[c][i].ctx.bind
    /\ \A i \in 2..Len(stack[c]) :
           (\A j \in 2..i : stack[c][j].ctx = stack[c][j - 1].child) =>
               stack[c][i].tx = 0
    /\ (IsExit(c) /\ Bound(last[c].frame.ctx)) =>
           /\ last[c].frame.mode = "reenter"
           /\ last[c].calls = <<>>
           /\ IF last[c].out.kind = "panic"
              THEN last[c].pan = last[c].out.val
              ELSE last[c].ret = last[c].out.val /\ last[c].pan = NoPanic

\* C4 as stated: a RunInTx whose context carries a transaction binding
\* invokes the body with that same context, returns the body's result and
\* calls neither BeginTx nor Commit nor Rollback.
C4_SameContext ==
    \A c \in Chains :
        /\ ReentrantRest(c)
        /\ \A i \in 1..Len(stack[c]) :
               Bound(stack[c][i].ctx) => stack[c][i].child = stack[c][i].ctx

\* C4 amended: a RunInTx whose context carries a transaction binding invokes
\* the body with that context or with the context IncDepth derives from it,
\* which carries the same binding, returns the body's result and calls
\* neither BeginTx nor Commit nor Rollback.
C4_SameBinding ==
    \A c \in Chains :
        /\ ReentrantRest(c)
        /\ \A i \in 1..Len(stack[c]) :
               Bound(stack[c][i].ctx) =>
                   \/ stack[c][i].child = stack[c][i].ctx
                   \/ stack[c][i].child = IncDepth(stack[c][i].ctx)

\* C4 witness: a re-entrant RunInTx returned nil, its body had been given a
\* derived context, and the transaction is still open and uncommitted.
C4_Witness ==
    \E c \in Chains :
        /\ IsExit(c)
        /\ last[c].frame.mode = "reenter"
        /\ last[c].frame.child # last[c].frame.ctx
        /\ last[c].out.kind = "nil"
        /\ last[c].ret = Nil
        /\ txState[last[c].frame.ctx.bind.tx] = "open"
        /\ nCommit[last[c].frame.ctx.bind.tx] = 0

\* Inside the body of a RunInTx that began a transaction, DBTx and Tx on
\* the child context give the handle of that transaction.
BodyGetsItsTx(c) ==
    \A i \in 1..Len(stack[c]), a \in Receivers(c) :
        stack[c][i].mode = "begin" =>
            /\ Get(rev, "DBTx", a, stack[c][i].child) = Handle(TxOf(stack[c][i].tx))
            /\ Get(rev, "Tx", a, stack[c][i].child) = Handle(TxOf(stack[c][i].tx))

\* C5 as stated: DBTx(ctx) gives the handle of the transaction bound in ctx
\* and, when ctx carries no binding, the pool handle that DB() gives.
C5_PoolOtherwise ==
    HasGetters =>
        \A c \in Chains :
            /\ BodyGetsItsTx(c)
            /\ \A a \in Receivers(c), ctx \in Contexts(c) :
                   IF Bound(ctx)
                   THEN Get(rev, "DBTx", a, ctx) = Handle(TxOf(ctx.bind.tx))
                   ELSE /\ Get(rev, "DBTx", a, ctx) = Handle(Pool)
                        /\ Get(rev, "DBTx", a, ctx) = Get(rev, "DB", a, ctx)

\* C5 amended: DBTx(ctx) gives the handle of the transaction bound in ctx
\* and, when ctx carries no binding, the handle of its receiver: the pool
\* handle that DB() gives for a unit of work over the pool, the receiver's
\* own transaction for a Tx-variant one.
C5_ReceiverOtherwise ==
    HasGetters =>
        \A c \in Chains :
            /\ BodyGetsItsTx(c)
            /\ \A a \in Receivers(c), ctx \in Contexts(c) :
                   LET g == Get(rev, "DBTx", a, ctx) IN
                   CASE Bound(ctx) -> g = Handle(TxOf(ctx.bind.tx))
                     [] ~Bound(ctx) /\ a.kind = "tx" -> g = Handle(TxOf(a.tx))
                     [] OTHER -> g = Handle(Pool) /\ g = Get(rev, "DB", a, ctx)

\* C5 witness: inside a body DBTx gave the handle of the body's transaction
\* and the statement went to that transaction.
C5_Witness ==
    \E c \in Chains :
        /\ stack[c] # <<>>
        /\ Top(c).mode = "begin"
        /\ last[c].op = "DBTx"
        /\ last[c].handle = TxOf(Top(c).tx)
        /\ txWrites[Top(c).tx]

\* C6: RunInTx on a Tx-variant unit of work with a context that carries no
\* transaction binding surfaces ErrNestedTransaction: it returns or panics
\* with that error, its body is not invoked (no such invocation is ever
\* active) and it makes no driver call.
C6_NestedTransaction ==
    \A c \in Chains :
        /\ \A i \in 1..Len(stack[c]) :
               ~(AtomicIsTx(stack[c][i].recv) /\ ~Bound(stack[c][i].ctx))
        /\ (/\ last[c].op = "RunInTx"
            /\ AtomicIsTx(last[c].frame.recv)
            /\ ~Bound(last[c].frame.ctx)) =>
               /\ ~last[c].invoked
               /\ last[c].calls = <<>>
               /\ \/ last[c].ret = ErrNestedTransaction
                  \/ last[c].pan = ErrNestedTransaction

\* C7: Tx(ctx) gives the handle of the transaction bound in ctx and panics
\* with ErrNotTransaction / ErrNonTransaction when ctx carries no binding;
\* it never gives the pool handle.
C7_TxOrPanic ==
    HasGetters =>
        \A c \in Chains :
            \A a \in Receivers(c), ctx \in Contexts(c) :
                LET g == Get(rev, "Tx", a, ctx) IN
                /\ g.handle # Pool
                /\ IF Bound(ctx)
                   THEN g = Handle(TxOf(ctx.bind.tx))
                   ELSE /\ g.handle = None
                        /\ g.pan = IF rev = "A"
                                   THEN ErrNotTransaction
                                   ELSE ErrNonTransaction

\* C7 witness: Tx was called outside a transaction and panicked.
C7_Witness ==
    \E c \in Chains :
        /\ last[c].op = "Tx"
        /\ last[c].pan \in {ErrNotTransaction, ErrNonTransaction}
        /\ last[c].handle = None
        /\ stack[c] = <<>>

\* C8: DB() on a unit of work over the pool gives the pool handle whatever
\* the context binds, and on a Tx-variant unit of work it panics with
\* ErrIsTransaction and gives no handle.
C8_PoolOrPanic ==
    HasGetters =>
        \A c \in Chains :
            \A a \in Receivers(c), ctx \in Contexts(c) :
                LET g == Get(rev, "DB", a, ctx) IN
                IF AtomicIsTx(a)
                THEN g.pan = ErrIsTransaction /\ g.handle = None
                ELSE g = Handle(Pool)

\* C8 witness: DB was called on a Tx-variant unit of work inside a body and
\* panicked with ErrIsTransaction.
C8_Witness ==
    \E c \in Chains :
        /\ last[c].op = "DB"
        /\ last[c].pan = ErrIsTransaction
        /\ panicking[c] = ErrIsTransaction
        /\ stack[c] # <<>>

\* C9: when the body returned nil, RunInTx returns the result of Commit: nil
\* exactly when the transaction is committed, the commit error otherwise.
C9_CommitResult ==
    \A c \in Chains :
        (Began(c) /\ last[c].out.kind = "nil") =>
            LET t == last[c].frame.tx IN
            /\ last[c].pan = NoPanic
            /\ txState[t] \in {"committed", "aborted"}
            /\ txState[t] = "committed" => last[c].ret = Nil
            /\ txState[t] = "aborted" => last[c].ret = ErrCommitFailed

\* C9 witness: the body returned nil and Commit failed.
C9_Witness ==
    \E c \in Chains :
        /\ Began(c)
        /\ last[c].out.kind = "nil"
        /\ last[c].ret = ErrCommitFailed
        /\ txState[last[c].frame.tx] = "aborted"

\* C10: when BeginTx fails RunInTx returns the driver's error, the body is
\* not invoked and no driver call follows; no transaction was handed out.
C10_BeginError ==
    \A c \in Chains :
        BeginFailed(c) =>
            /\ last[c].ret = ErrBeginFailed
            /\ last[c].pan = NoPanic
            /\ ~last[c].invoked
            /\ last[c].calls = <<>>
            /\ \A t \in TxIds :
                   txState[t] = "unused" => nCommit[t] = 0 /\ nRollback[t] = 0

\* C10 witness: the first BeginTx of the run failed.
C10_Witness ==
    \E c \in Chains :
        /\ BeginFailed(c)
        /\ last[c].ret = ErrBeginFailed
        /\ \A t \in TxIds : txState[t] = "unused"

\* ------------------------------------------------------------------------
\* Middleware: New(db, fns...) keeps the wrapper factories, and every getter
\* builds its handle by applying them to the pool or to the transaction.
\* ------------------------------------------------------------------------

MaxFns == 2

Middlewares == {"A", "B", "C"}

\* The argument lists of New: up to MaxFns different wrapper factories.
FnsLists ==
    {f \in UNION {[1..n -> Middlewares] : n \in 0..MaxFns} :
        \A i, j \in 1..Len(f) : f[i] = f[j] => i = j}

\* The wrapper of a DBTX that is no wrapper.
Bare == "bare"

\* *sql.DB and *sql.Tx as DBTX: nothing wraps them.
SqlDB == [wrapper |-> Bare, dbtx |-> "sql.DB"]

SqlTx == [wrapper |-> Bare, dbtx |-> "sql.Tx"]

\* fn(dbtx): a wrapper that holds dbtx and forwards every method to it.
Wrap(fn, dbtx) == [wrapper |-> fn, dbtx |-> dbtx]

RECURSIVE apply(_, _)

\* for _, fn := range fns { dbtx = fn(dbtx) }
apply(dbtx, fns) ==
    IF fns = <<>> THEN dbtx ELSE apply(Wrap(Head(fns), dbtx), Tail(fns))

\* &Tx{tx: tx, fns: a.fns}
TxWith(fns) == [tx |-> SqlTx, fns |-> fns]

TxUnderlyingTwice(t) == apply(apply(t.tx, t.fns), t.fns)

\* (*Tx).underlying, called Tx() by the context helpers.
TxUnderlying(t) == apply(t.tx, t.fns)

\* Value(ctx): the wrapped transaction of the context, when it has one.
ValueFns(ctx) ==
    IF ctx = None THEN [ok |-> FALSE, dbtx |-> None]
    ELSE [ok |-> TRUE, dbtx |-> TxUnderlying(ctx)]

\* (*Atomic).DB
DBFns(fns) == Handle(apply(SqlDB, fns))

\* (*Atomic).DBTx
DBTxFns(fns, ctx) ==
    IF ValueFns(ctx).ok THEN Handle(ValueFns(ctx).dbtx) ELSE DBFns(fns)

\* (*Atomic).Tx
TxFns(fns, ctx) ==
    IF ValueFns(ctx).ok THEN Handle(ValueFns(ctx).dbtx)
    ELSE Panics(ErrNotTransaction)

GetFns(m, fns, ctx) ==
    CASE m = "DB" -> DBFns(fns)
      [] m = "DBTx" -> DBTxFns(fns, ctx)
      [] m = "Tx" -> TxFns(fns, ctx)

RECURSIVE Dispatch(_)

\* One method call on a handle: each wrapper is entered, forwards the call to
\* the DBTX it holds and is left when that call returns.
Dispatch(h) ==
    IF h.wrapper = Bare THEN <<[at |-> h.dbtx, ev |-> "exec"]>>
    ELSE <<[at |-> h.wrapper, ev |-> "enter"]>>
             \o Dispatch(h.dbtx)
             \o <<[at |-> h.wrapper, ev |-> "exit"]>>

\* The contexts a caller can hold: Background and those of the active bodies.
MwContexts == {None} \cup {mwStack[i] : i \in 1..Len(mwStack)}

\* RunInTx: a context with a transaction runs the body as it is, any other
\* gets a new transaction bound together with the factories.
MwRunInTx(ctx) ==
    /\ Len(mwStack) < MaxDepth
    /\ mwStack' = Append(mwStack, IF ctx # None THEN ctx ELSE TxWith(mwFns))
    /\ UNCHANGED <<mwFns, mwGot, mwRest>>

\* The innermost body returns.
MwReturn ==
    /\ mwStack # <<>>
    /\ mwStack' = SubSeq(mwStack, 1, Len(mwStack) - 1)
    /\ UNCHANGED <<mwFns, mwGot, mwRest>>

\* A getter is called and one method is called on the handle it returns.
MwUse(m, ctx) ==
    LET got == GetFns(m, mwFns, ctx) IN
        /\ mwGot' = [op |-> m, ctx |-> ctx, depth |-> Len(mwStack),
                     handle |-> got.handle, pan |-> got.pan,
                     events |-> IF got.pan = NoPanic
                                THEN Dispatch(got.handle) ELSE <<>>]
        /\ UNCHANGED <<mwFns, mwStack, mwRest>>

InitMw ==
    /\ rev = "A"
    /\ TxIdle
    /\ mwFns \in FnsLists
    /\ mwStack = <<>>
    /\ mwGot = [op |-> "none", ctx |-> None, depth |-> 0, handle |-> None,
                pan |-> NoPanic, events |-> <<>>]
    /\ LkIdle
    /\ ObIdle
    /\ PrIdle
    /\ FlIdle
    /\ LrIdle
    /\ CxIdle
    /\ NewIdle

NextMw ==
    \/ \E ctx \in MwContexts : MwRunInTx(ctx)
    \/ MwReturn
    \/ \E m \in {"DB", "DBTx", "Tx"}, ctx \in MwContexts : MwUse(m, ctx)

SpecMw == InitMw /\ [][NextMw]_vars

\* A getter returned a handle and a method was called on it.
Dispatched == mwGot.op # "none" /\ mwGot.pan = NoPanic

\* The position of an event in the events of the call.
Pos(at, ev) ==
    CHOOSE k \in 1..Len(mwGot.events) : mwGot.events[k] = [at |-> at, ev |-> ev]

\* The number of times the call passed through a wrapper in one direction.
Times(at, ev) ==
    Cardinality({k \in 1..Len(mwGot.events) :
                    mwGot.events[k] = [at |-> at, ev |-> ev]})

\* C11: for factories listed as [A, B], a method called on a handle of DB,
\* DBTx or Tx enters A before B and leaves B before A.
C11_FirstListedOutermost ==
    Dispatched =>
        \A i, j \in 1..Len(mwFns) :
            i < j =>
                /\ Pos(mwFns[i], "enter") < Pos(mwFns[j], "enter")
                /\ Pos(mwFns[j], "exit") < Pos(mwFns[i], "exit")

\* C12: a method called on a handle of DB, DBTx or Tx passes through each
\* configured wrapper exactly once and through no other, on the pool and on
\* the transaction, at every depth of nested RunInTx calls.
C12_AppliedOnce ==
    Dispatched =>
        /\ \A m \in Middlewares :
               LET n == IF \E i \in 1..Len(mwFns) : mwFns[i] = m THEN 1 ELSE 0
               IN  Times(m, "enter") = n /\ Times(m, "exit") = n
        /\ Times("sql.DB", "exec") + Times("sql.Tx", "exec") = 1
        /\ Len(mwGot.events) = 2 * Len(mwFns) + 1

\* C12 witness: two wrappers are configured and the transaction's handle was
\* taken in a body nested two calls below the one that began it.
C12_Witness ==
    /\ Dispatched
    /\ Len(mwFns) = 2
    /\ mwGot.op = "Tx"
    /\ mwGot.depth >= 3
    /\ Times("sql.Tx", "exec") = 1

\* ------------------------------------------------------------------------
\* Package lock: Lock and TryLock run pg_advisory_xact_lock and
\* pg_try_advisory_xact_lock on the transaction of the context.  Goroutine p
\* runs one RunInTx at a time; its transaction is the driver's transaction p.
\* Revision A is the package built on Value(ctx) (DBTX, ok), revision B the
\* one built on MustValue(ctx) *Atomic.
\* ------------------------------------------------------------------------

ErrAlreadyLocked == "ErrAlreadyLocked"
ErrLockOutsideTx == "ErrLockOutsideTx"
ErrContextNotFound == "ErrContextNotFound"

\* A blocked call has not returned yet.
Waiting == "waiting"

\* MustValue: the bound *Atomic, or a panic.
MustValue(ctx) ==
    IF ValueB(ctx)[2] THEN Handle(ValueB(ctx)[1])
    ELSE Panics(ErrContextNotFound)

LockTxUnchecked(r, ctx) == [tx |-> ctx.bind.tx, ret |-> Nil, pan |-> NoPanic]

\* The head of Lock and of TryLock: the transaction to run the statement on,
\* or the error or panic that ends the call before any statement.
LockTx(r, ctx) ==
    IF r = "A"
    THEN IF ~ValueA(ctx)[2]
         THEN [tx |-> 0, ret |-> ErrLockOutsideTx, pan |-> NoPanic]
         ELSE [tx |-> underlyingTx(ValueA(ctx)[1]).tx, ret |-> Nil,
               pan |-> NoPanic]
    ELSE IF MustValue(ctx).pan # NoPanic
         THEN [tx |-> 0, ret |-> Nil, pan |-> MustValue(ctx).pan]
         ELSE IF ~AtomicIsTx(MustValue(ctx).handle)
              THEN [tx |-> 0, ret |-> ErrLockOutsideTx, pan |-> NoPanic]
              ELSE [tx |-> TxB(MustValue(ctx).handle, ctx).handle.tx,
                    ret |-> Nil, pan |-> NoPanic]

\* The database grants a key to a transaction when no other transaction holds
\* it; the holder itself is granted it again.
Grantable(held, t, k) == held[k] \in {0, t}

Grant(held, t, k) == IF t = 0 THEN held ELSE [held EXCEPT ![k] = t]

TryLockIgnoresResult(r, ctx, k, held) ==
    LET b == LockTx(r, ctx) IN
        IF b.pan # NoPanic \/ b.ret # Nil
        THEN [ret |-> b.ret, pan |-> b.pan, sql |-> "none", tx |-> 0,
              got |-> FALSE, wait |-> FALSE]
        ELSE [ret |-> Nil, pan |-> NoPanic,
              sql |-> "pg_try_advisory_xact_lock", tx |-> b.tx,
              got |-> Grantable(held, b.tx, k), wait |-> FALSE]

\* TryLock: SELECT pg_try_advisory_xact_lock scanned into isLockAcquired.
TryLock(r, ctx, k, held) ==
    LET b == LockTx(r, ctx) IN
        IF b.pan # NoPanic \/ b.ret # Nil
        THEN [ret |-> b.ret, pan |-> b.pan, sql |-> "none", tx |-> 0,
              got |-> FALSE, wait |-> FALSE]
        ELSE LET isLockAcquired == Grantable(held, b.tx, k) IN
                 [ret |-> IF ~isLockAcquired THEN ErrAlreadyLocked ELSE Nil,
                  pan |-> NoPanic, sql |-> "pg_try_advisory_xact_lock",
                  tx |-> b.tx, got |-> isLockAcquired, wait |-> FALSE]

\* Lock: SELECT pg_advisory_xact_lock, which returns once the key is granted.
Lock(r, ctx, k, held) ==
    LET b == LockTx(r, ctx) IN
        IF b.pan # NoPanic \/ b.ret # Nil
        THEN [ret |-> b.ret, pan |-> b.pan, sql |-> "none", tx |-> 0,
              got |-> FALSE, wait |-> FALSE]
        ELSE [ret |-> IF Grantable(held, b.tx, k) THEN Nil ELSE Waiting,
              pan |-> NoPanic, sql |-> "pg_advisory_xact_lock", tx |-> b.tx,
              got |-> Grantable(held, b.tx, k),
              wait |-> ~Grantable(held, b.tx, k)]

ReleaseOnCommitOnly(held, t, how) ==
    [k \in Keys |-> IF held[k] = t /\ how = "commit" THEN 0 ELSE held[k]]

ReleaseNothing(held, t, how) == held

\* Transaction-level advisory locks end with the transaction, committed or
\* rolled back.
Release(held, t, how) == [k \in Keys |-> IF held[k] = t THEN 0 ELSE held[k]]

Procs == TxIds

\* The contexts goroutine p can pass: Background, in revision B one that binds
\* the Pool-variant Atomic, and inside a body the context of its transaction.
LkContexts(p) ==
    {Background}
        \cup (IF rev = "B" THEN {WithValue(Background, Pool)} ELSE {})
        \cup (IF lkPc[p] = "in" THEN {WithValue(Background, NewTx(p))} ELSE {})

\* How the last RunInTx that held key k ended, when nothing happened since.
After(k) ==
    IF lkLast.op = "RunInTx" /\ k \in lkLast.freed THEN lkLast.ret ELSE "none"

\* RunInTx begins the transaction of goroutine p and runs the body.
LkRunInTx(p) ==
    /\ lkPc[p] = "out"
    /\ lkPc' = [lkPc EXCEPT ![p] = "in"]
    /\ UNCHANGED <<lkWait, lkHeld, lkTook, lkLast, lkRest>>

\* The body of p returns: nil commits, an error rolls back.
LkReturn(p, how) ==
    /\ lkPc[p] = "in"
    /\ lkWait[p] = NoKey
    /\ lkPc' = [lkPc EXCEPT ![p] = "out"]
    /\ lkHeld' = Release(lkHeld, p, how)
    /\ lkTook' = [lkTook EXCEPT ![p] = {}]
    /\ lkLast' = LkResult("RunInTx", p, NoKey, WithValue(Background, NewTx(p)),
                          how, NoPanic, "none", 0, FALSE, "none",
                          {k \in Keys : lkHeld[k] = p})
    /\ UNCHANGED <<lkWait, lkRest>>

\* Goroutine p calls Lock or TryLock.  A panic inside a body unwinds through
\* RunInTx, which rolls the transaction back.
LkCall(p, op, ctx, k) ==
    LET r == IF op = "Lock" THEN Lock(rev, ctx, k, lkHeld)
             ELSE TryLock(rev, ctx, k, lkHeld)
        unwound == r.pan # NoPanic /\ lkPc[p] = "in"
        granted == IF r.got THEN Grant(lkHeld, r.tx, k) ELSE lkHeld
    IN  /\ lkPc[p] \in {"out", "in"}
        /\ lkWait[p] = NoKey
        /\ lkLast' = LkResult(op, p, k, ctx, r.ret, r.pan, r.sql, lkHeld[k],
                              r.wait, After(k), {})
        /\ lkHeld' = IF unwound THEN Release(granted, p, "rollback")
                     ELSE granted
        /\ lkTook' = [lkTook EXCEPT ![p] =
                         IF unwound THEN {}
                         ELSE IF r.got /\ r.tx = p THEN @ \cup {k} ELSE @]
        /\ lkPc' = [lkPc EXCEPT ![p] = IF unwound THEN "out" ELSE @]
        /\ lkWait' = [lkWait EXCEPT ![p] = IF r.wait THEN k ELSE @]
        /\ UNCHANGED lkRest

\* The database grants the key p waits for and p's Lock returns nil.
LkGranted(p) ==
    /\ lkWait[p] # NoKey
    /\ Grantable(lkHeld, p, lkWait[p])
    /\ lkHeld' = Grant(lkHeld, p, lkWait[p])
    /\ lkTook' = [lkTook EXCEPT ![p] = @ \cup {lkWait[p]}]
    /\ lkWait' = [lkWait EXCEPT ![p] = NoKey]
    /\ lkLast' = LkResult("Lock", p, lkWait[p], WithValue(Background, NewTx(p)),
                          Nil, NoPanic, "pg_advisory_xact_lock", 0, TRUE,
                          After(lkWait[p]), {})
    /\ UNCHANGED <<lkPc, lkRest>>

InitLock ==
    /\ rev \in {"A", "B"}
    /\ TxIdle
    /\ MwIdle
    /\ LkIdle
    /\ ObIdle
    /\ PrIdle
    /\ FlIdle
    /\ LrIdle
    /\ CxIdle
    /\ NewIdle

NextLock ==
    \/ \E p \in Procs : LkRunInTx(p)
    \/ \E p \in Procs, how \in {"commit", "rollback"} : LkReturn(p, how)
    \/ \E p \in Procs, op \in {"Lock", "TryLock"}, k \in Keys :
           \E ctx \in LkContexts(p) : LkCall(p, op, ctx, k)
    \/ \E p \in Procs : LkGranted(p)

SpecLock == InitLock /\ [][NextLock]_vars

\* The revision whose Lock the blocking tests run (lock.go:56-72).
InitLockFair ==
    /\ rev = "A"
    /\ TxIdle
    /\ MwIdle
    /\ LkIdle
    /\ ObIdle
    /\ PrIdle
    /\ FlIdle
    /\ LrIdle
    /\ CxIdle
    /\ NewIdle

\* Bodies return, and the database grants a free key to a transaction that
\* waits for it.
SpecLockFair ==
    /\ InitLockFair
    /\ [][NextLock]_vars
    /\ \A p \in Procs :
           /\ WF_vars(\E how \in {"commit", "rollback"} : LkReturn(p, how))
           /\ SF_vars(LkGranted(p))

\* The last thing that happened is a call of Lock or TryLock.
LockCalled == lkLast.op \in {"Lock", "TryLock"}

\* The context of the call binds a transaction.
CarriesTx == AtomicIsTx(lkLast.ctx.bind)

Blocked(p) == lkWait[p] # NoKey

\* The Lock call of p that had blocked returned nil with the key granted.
Acquired(p) ==
    /\ lkLast.op = "Lock"
    /\ lkLast.proc = p
    /\ lkLast.blocked
    /\ lkLast.ret = Nil
    /\ lkLast.key \in lkTook[p]

\* The transactions p waits for wait for each other: a holder's RunInTx
\* never returns.
Doomed(p) ==
    \E S \in SUBSET Procs :
        /\ p \in S
        /\ \A q \in S : Blocked(q) /\ lkHeld[lkWait[q]] \in S

MaxMsgs == 2

ErrInsertFailed == "driver: insert failed"

Messages ==
    {[AggregateID |-> "a-id-1", Type |-> "type-1"],
     [AggregateID |-> "a-id-2", Type |-> "type-2"]}

\* The argument lists of Enqueue.
MsgLists == UNION {[1..n -> Messages] : n \in 1..MaxMsgs}

\* (*outbox).Enqueue: append under the mutex.
outboxEnqueue(ob, msgs) == ob \o msgs

\* (*outbox).IsZero
IsZero(ob) == Len(ob) = 0

\* (*outbox).Params: one array per column, in buffer order.
Params(ob) ==
    [AggregateIds |-> [i \in 1..Len(ob) |-> ob[i].AggregateID],
     Types |-> [i \in 1..Len(ob) |-> ob[i].Type]]

\* Queries.Create: INSERT ... UNNEST of the arrays, one row per position; the
\* table's serial id follows the position.
Create(arg) ==
    [i \in 1..Len(arg.AggregateIds) |->
        [aggregate_id |-> arg.AggregateIds[i], type |-> arg.Types[i]]]

\* A context of the outbox: the unit-of-work context and, under the outbox
\* key, the buffer of the call at that depth of obStack (0: none).
ObCtx(ctx, ob) == [ctx |-> ctx, ob |-> ob]

EnqueueAnywhere(c, msgs, frames) ==
    IF frames = <<>> THEN [ok |-> FALSE, frames |-> frames]
    ELSE [ok |-> TRUE,
          frames |-> [frames EXCEPT ![Len(frames)].ob =
                                        outboxEnqueue(@, msgs)]]

\* Enqueue: stage the messages in the buffer of the context, if it has one.
Enqueue(c, msgs, frames) ==
    IF c.ob # 0
    THEN [ok |-> TRUE,
          frames |-> [frames EXCEPT ![c.ob].ob = outboxEnqueue(@, msgs)]]
    ELSE [ok |-> FALSE, frames |-> frames]

WriteAfterBodyAlways(out, ob, failInsert) ==
    IF IsZero(ob) THEN [out |-> out, rows |-> <<>>, insert |-> "none"]
    ELSE [out |-> out, rows |-> Create(Params(ob)), insert |-> "ok"]

\* The closure Outbox.RunInTx hands to Atomic.RunInTx, once the body is over:
\* its outcome and the rows it inserted.
WriteAfterBody(out, ob, failInsert) ==
    IF out.kind # "nil" THEN [out |-> out, rows |-> <<>>, insert |-> "none"]
    ELSE IF IsZero(ob)
         THEN [out |-> Returned(Nil), rows |-> <<>>, insert |-> "none"]
         ELSE IF failInsert
              THEN [out |-> Returned(ErrInsertFailed), rows |-> <<>>,
                    insert |-> "failed"]
              ELSE [out |-> Returned(Nil), rows |-> Create(Params(ob)),
                    insert |-> "ok"]

\* A re-entrant call that would commit the transaction when it succeeds.
ReentrantCommits(mode, out, commitErr) ==
    IF mode = "begin" THEN DeferA(out, commitErr, Nil)
    ELSE IF out.kind = "nil" THEN Exit(<<"Commit">>, commitErr, NoPanic)
    ELSE Passthrough(out)

HandlerErrorCommits(mode, out, commitErr) ==
    IF mode # "begin" THEN Passthrough(out)
    ELSE IF out.kind = "err"
         THEN Exit(<<"Commit", "Rollback">>, out.val, NoPanic)
         ELSE DeferA(out, commitErr, Nil)

RollbackOnInsertErrorCommits(mode, out, commitErr) ==
    IF mode = "begin"
    THEN DeferA(IF out.kind = "err" THEN Returned(Nil) ELSE out, commitErr, Nil)
    ELSE Passthrough(out)

\* Atomic.RunInTx around the closure: the call that began the transaction
\* commits or rolls back, a re-entrant one only passes the outcome on.
ObExit(mode, out, commitErr) ==
    IF mode = "begin" THEN DeferA(out, commitErr, Nil) ELSE Passthrough(out)

\* Messages staged in the buffers and rows inserted or durable.
ObLoad ==
    Len(obTable) + Len(obTx.rows)
        + (IF obStack = <<>> THEN 0
           ELSE LET RECURSIVE Sum(_)
                    Sum(i) == IF i = 0 THEN 0
                              ELSE Len(obStack[i].ob) + Sum(i - 1)
                IN  Sum(Len(obStack)))

\* Outbox.RunInTx up to the body: called at the top with Background and in a
\* body with the body's context.
ObRunInTx(failBegin) ==
    LET ctx == IF obStack = <<>> THEN Background ELSE ChildCtx(Background, 1)
        plan == RunInTxA(Pool, ctx)
        b == OnBegin(ctx, 1, DriverBegin(failBegin))
    IN  /\ Len(obStack) < MaxDepth
        /\ IF plan.mode = "begin"
           THEN /\ obTx' = ObTx(IF b.run THEN "open" ELSE "unused", <<>>, <<>>,
                                FALSE, FALSE)
                /\ obStack' = IF b.run
                              THEN Append(obStack, [mode |-> "begin", ob |-> <<>>])
                              ELSE obStack
                /\ obLast' = IF b.run THEN ObNoResult
                             ELSE ObResult("RunInTx", TRUE, "none", b.ret, NoPanic,
                                           <<>>, "none", FALSE, 0, <<>>, obStack,
                                           obTable)
           ELSE /\ ~failBegin
                /\ obStack' = Append(obStack, [mode |-> "reenter", ob |-> <<>>])
                /\ obLast' = ObNoResult
                /\ UNCHANGED obTx
        /\ UNCHANGED <<obTable, obRest>>

\* Enqueue called with a context without outbox (c = 0) or with the context of
\* an active call.
ObEnqueue(c, msgs) ==
    LET e == Enqueue(ObCtx(Background, c), msgs, obStack) IN
        /\ ObLoad + Len(msgs) <= MaxMsgs
        /\ obStack' = e.frames
        /\ obLast' = ObResult("Enqueue", FALSE, "none", Nil, NoPanic, <<>>,
                              "none", e.ok, c, msgs, obStack, obTable)
        /\ UNCHANGED <<obTx, obTable, obRest>>

\* The body writes a row of its own through the transaction.
ObWrite ==
    /\ obStack # <<>>
    /\ ~obTx.wrote
    /\ obTx' = [obTx EXCEPT !.wrote = TRUE]
    /\ obLast' = ObNoResult
    /\ UNCHANGED <<obStack, obTable, obRest>>

\* The innermost body returns e: the staged messages are inserted and
\* Atomic.RunInTx ends.
ObReturn(e, failInsert, failCommit) ==
    LET top == obStack[Len(obStack)]
        w == WriteAfterBody(Returned(e), top.ob, failInsert)
        ex == ObExit(top.mode, w.out, DriverCommit("open", failCommit).err)
        st == RunCalls(ex.calls, obTx.state, failCommit, FALSE)
        rows == obTx.rows \o w.rows
    IN  /\ obStack # <<>>
        /\ failInsert => e = Nil /\ ~IsZero(top.ob)
        /\ failCommit => "Commit" \in {ex.calls[i] : i \in 1..Len(ex.calls)}
        /\ obStack' = SubSeq(obStack, 1, Len(obStack) - 1)
        /\ obTx' = ObTx(st, rows,
                        IF ex.ret = Nil THEN obTx.done \o w.rows ELSE obTx.done,
                        obTx.wrote, obTx.failed \/ w.insert = "failed")
        /\ obTable' = IF st = "committed" THEN obTable \o rows ELSE obTable
        /\ obLast' = ObResult("RunInTx", top.mode = "begin", Returned(e).kind,
                              ex.ret, ex.pan, top.ob, w.insert, FALSE, 0, <<>>,
                              obStack, obTable)
        /\ UNCHANGED obRest

\* The innermost body panics: the panic unwinds every active call and the
\* one that began the transaction rolls it back.
ObPanic(p) ==
    LET top == obStack[Len(obStack)]
        ex == ObExit("begin", Panicked(p), Nil)
    IN  /\ obStack # <<>>
        /\ obStack' = <<>>
        /\ obTx' = [obTx EXCEPT !.state = RunCalls(ex.calls, @, FALSE, FALSE)]
        /\ obLast' = ObResult("RunInTx", top.mode = "begin", "panic", ex.ret,
                              ex.pan, top.ob, "none", FALSE, 0, <<>>, obStack,
                              obTable)
        /\ UNCHANGED <<obTable, obRest>>

InitOutbox ==
    /\ rev = "A"
    /\ TxIdle
    /\ MwIdle
    /\ LkIdle
    /\ ObIdle
    /\ PrIdle
    /\ FlIdle
    /\ LrIdle
    /\ CxIdle
    /\ NewIdle

NextOutbox ==
    \/ \E failBegin \in BOOLEAN : ObRunInTx(failBegin)
    \/ \E c \in 0..Len(obStack), msgs \in MsgLists : ObEnqueue(c, msgs)
    \/ ObWrite
    \/ \E e \in {Nil} \cup BodyErrors, failInsert, failCommit \in BOOLEAN :
           ObReturn(e, failInsert, failCommit)
    \/ \E p \in BodyPanics : ObPanic(p)

SpecOutbox == InitOutbox /\ [][NextOutbox]_vars

\* The rows that hold the messages msgs, in their order.
AsRows(msgs) ==
    [i \in 1..Len(msgs) |->
        [aggregate_id |-> msgs[i].AggregateID, type |-> msgs[i].Type]]

\* The last n elements of a sequence.
Suffix(q, n) == SubSeq(q, Len(q) - n + 1, Len(q))

\* An Outbox.RunInTx whose body ran has just returned or panicked.
ObDone == obLast.op = "RunInTx" /\ obLast.out # "none"

\* The body of the call that just ended returned an error or panicked.
ObBodyFailed == ObDone /\ obLast.out \in {"err", "panic"}

\* C17 as stated: when the body fails no row of the call is inserted and the
\* table stays as it was; when the call succeeds its messages are persisted:
\* a transaction that is over without commit holds no row of a call that
\* returned nil, and a commit appends the rows in enqueue order.
C17_OutboxAtomic ==
    /\ ObBodyFailed =>
           /\ obLast.insert = "none"
           /\ obLast.outer => obTable = obLast.table
    /\ obTx.state \in {"rolledback", "aborted"} => obTx.done = <<>>
    /\ (ObDone /\ obLast.outer /\ obTx.state = "committed") =>
           /\ obTable = obLast.table \o obTx.rows
           /\ Suffix(obTx.rows, Len(obLast.ob)) = AsRows(obLast.ob)

\* C17 amended: a failed body inserts no row of the call; the call that began
\* the transaction either returns nil, with the transaction committed and the
\* table extended by the rows of the transaction, its own messages last and
\* in enqueue order, or leaves the table as it was; a call that re-entered a
\* transaction and returned nil has its rows inserted on that transaction,
\* not yet durable.
C17_OutermostAtomic ==
    /\ ObBodyFailed =>
           /\ obLast.insert = "none"
           /\ obLast.outer =>
                  obTable = obLast.table /\ obTx.state = "rolledback"
    /\ (ObDone /\ obLast.outer) =>
           IF obLast.ret = Nil /\ obLast.pan = NoPanic
           THEN /\ obTx.state = "committed"
                /\ obTable = obLast.table \o obTx.rows
                /\ obTx.done = obTx.rows
                /\ Suffix(obTx.rows, Len(obLast.ob)) = AsRows(obLast.ob)
           ELSE /\ obTx.state # "committed"
                /\ obTable = obLast.table
    /\ (ObDone /\ ~obLast.outer /\ obLast.ret = Nil /\ obLast.pan = NoPanic) =>
           /\ obTx.state = "open"
           /\ obTable = obLast.table
           /\ Suffix(obTx.rows, Len(obLast.ob)) = AsRows(obLast.ob)
           /\ Suffix(obTx.done, Len(obLast.ob)) = AsRows(obLast.ob)

\* C17 witness: the call that began the transaction staged two different
\* messages, its body wrote a row of its own, and it returned nil.
C17_Witness ==
    /\ ObDone
    /\ obLast.outer
    /\ obLast.ret = Nil
    /\ Len(obLast.ob) = 2
    /\ obLast.ob[1] # obLast.ob[2]
    /\ obTx.wrote
    /\ obTx.state = "committed"
    /\ obTable = AsRows(obLast.ob)

\* C18 as stated: a failed insert of the staged messages is returned by
\* Outbox.RunInTx and its transaction is never committed.
C18_InsertFailureRollsBack ==
    /\ (ObDone /\ obLast.insert = "failed") =>
           obLast.ret = ErrInsertFailed /\ obLast.out = "nil"
    /\ obTx.failed => obTx.state # "committed"

\* C18 amended: Outbox.RunInTx returns the error of the failed insert; the
\* call that began the transaction rolls it back without calling Commit, so
\* the table stays as it was and the body's write is lost, while a call that
\* re-entered a transaction leaves it open.
C18_OutermostInsertFailure ==
    (ObDone /\ obLast.insert = "failed") =>
        /\ obLast.ret = ErrInsertFailed
        /\ obLast.pan = NoPanic
        /\ obLast.out = "nil"
        /\ obTx.failed
        /\ obTable = obLast.table
        /\ obTx.state = IF obLast.outer THEN "rolledback" ELSE "open"

\* C18 witness: the body of the call that began the transaction wrote a row,
\* staged messages and returned nil, and the insert failed.
C18_Witness ==
    /\ ObDone
    /\ obLast.outer
    /\ obLast.insert = "failed"
    /\ obLast.ret = ErrInsertFailed
    /\ obTx.wrote
    /\ obTx.state = "rolledback"
    /\ Len(obLast.ob) = 2

\* C19: Enqueue with a context that holds no outbox returns false and leaves
\* every buffer, the transaction and the table as they were; with the context
\* of an Outbox.RunInTx it returns true and appends the messages to the
\* buffer of that call only.
C19_EnqueueOutside ==
    obLast.op = "Enqueue" =>
        /\ obTable = obLast.table
        /\ IF obLast.target = 0
           THEN ~obLast.ok /\ obStack = obLast.stack
           ELSE /\ obLast.ok
                /\ obStack =
                       [obLast.stack EXCEPT ![obLast.target].ob = @ \o obLast.msgs]

\* C19 witness: inside a body whose buffer holds a message, Enqueue is called
\* with a context that holds no outbox.
C19_Witness ==
    /\ obLast.op = "Enqueue"
    /\ obLast.target = 0
    /\ ~obLast.ok
    /\ obStack # <<>>
    /\ ~IsZero(obStack[Len(obStack)].ob)

\* ------------------------------------------------------------------------
\* The staging buffer under concurrent Enqueue calls.  Revision "postgres" is
\* src/postgres/outbox/outbox.go (RWMutex around the append and the reads),
\* revision "generic" is src/outbox/outbox.go (Queue appends with no lock).
\* An append reads the slice, builds the longer slice and stores it.
\* ------------------------------------------------------------------------

\* The message of the n-th call of goroutine g.
MsgOf(g, n) == [by |-> g, call |-> n]

\* A goroutine is between reading the slice and storing the longer one.
Appending(g) == staging.pc[g] = "append"

\* o.mu.Lock() / o.mu.RLock(): the mutex is free of writers.  The generic
\* revision has no mutex.
MuFree ==
    staging.rev = "generic" \/ \A g \in Goroutines : ~Appending(g)

\* Enqueue of goroutine g up to the read of the slice: append(o.msgs, msgs...)
\* is computed from the slice as it is now.
StEnqueue(g) ==
    /\ staging.pc[g] = "idle"
    /\ staging.calls[g] < MaxCalls
    /\ MuFree
    /\ staging' = [staging EXCEPT
                       !.pc[g] = "append",
                       !.calls[g] = @ + 1,
                       !.next[g] = staging.buf
                                       \o <<MsgOf(g, staging.calls[g] + 1)>>]
    /\ UNCHANGED stRest

\* The longer slice is stored, the mutex released and Enqueue returns.
StStore(g) ==
    /\ Appending(g)
    /\ staging' = [staging EXCEPT
                       !.pc[g] = "idle", !.buf = staging.next[g], !.next[g] = <<>>]
    /\ UNCHANGED stRest

\* IsZero / Params (generic: the read of ob.events): the buffer as the caller
\* of the body sees it.
StSnapshot ==
    /\ MuFree
    /\ ~staging.looked \/ staging.seen # staging.buf
    /\ staging' = [staging EXCEPT !.looked = TRUE, !.seen = staging.buf]
    /\ UNCHANGED stRest

InitStaging ==
    /\ rev = "A"
    /\ TxIdle
    /\ MwIdle
    /\ LkIdle
    /\ obStack = <<>>
    /\ obTx = ObTx("unused", <<>>, <<>>, FALSE, FALSE)
    /\ obTable = <<>>
    /\ obLast = ObNoResult
    /\ staging \in {Staging("postgres"), Staging("generic")}
    /\ PrIdle
    /\ FlIdle
    /\ LrIdle
    /\ CxIdle
    /\ NewIdle

NextStaging ==
    \/ \E g \in Goroutines : StEnqueue(g)
    \/ \E g \in Goroutines : StStore(g)
    \/ StSnapshot

SpecStaging == InitStaging /\ [][NextStaging]_vars

\* How often message m is in the sequence q.
Occurs(m, q) == Cardinality({i \in 1..Len(q) : q[i] = m})

\* C20: concurrent Enqueue calls are serialized: whenever every call made
\* has returned, the buffer holds each message of each call exactly once and
\* nothing else, and what IsZero and Params see is a buffer between calls.
C20_Serialized ==
    /\ (\A g \in Goroutines : ~Appending(g)) =>
           /\ \A g \in Goroutines : \A n \in 1..staging.calls[g] :
                  Occurs(MsgOf(g, n), staging.buf) = 1
           /\ Len(staging.buf) =
                  Cardinality({c \in Goroutines \X (1..MaxCalls) :
                                  c[2] <= staging.calls[c[1]]})
    /\ staging.looked =>
           \A g \in Goroutines : \A n \in 1..MaxCalls :
               /\ Occurs(MsgOf(g, n), staging.seen) <= 1
               /\ \A k \in 1..n :
                      Occurs(MsgOf(g, n), staging.seen) = 1 =>
                          Occurs(MsgOf(g, k), staging.seen) = 1

\* ------------------------------------------------------------------------
\* Package postgres/outbox, delivery: Outbox.Process (src/postgres/outbox/
\* outbox.go:55-74) runs Queries.Delete and the handler inside
\* Atomic.RunInTx; in the revision of outbox.go:151-227 the caller's body
\* calls OutBox.LoadAndDelete inside RunInTx itself.  Each worker has a
\* transaction of its own; the database runs READ COMMITTED.
\* ------------------------------------------------------------------------

Empty == "outbox: empty"

ErrNoRows == "sql: no rows in result set"

\* The ids of the rows of a table.
Ids(table) == {table[i].id : i \in 1..Len(table)}

\* The table without the row id.
Without(table, id) == SelectSeq(table, LAMBDA r : r.id # id)

DeleteNewestFirst(table, locked) ==
    LET free == Ids(table) \ locked IN
        IF free = {} THEN [err |-> ErrNoRows, id |-> 0]
        ELSE [err |-> Nil, id |-> CHOOSE i \in free : \A j \in free : i >= j]

DeleteIgnoresLocks(table, locked) ==
    LET free == Ids(table) IN
        IF free = {} THEN [err |-> ErrNoRows, id |-> 0]
        ELSE [err |-> Nil, id |-> CHOOSE i \in free : \A j \in free : i <= j]

\* Queries.Delete: DELETE ... WHERE id = (SELECT id FROM outbox ORDER BY id
\* FOR UPDATE SKIP LOCKED LIMIT 1) RETURNING ...: the committed row of lowest
\* id that no other transaction locks; Scan gives sql.ErrNoRows when the
\* sub-select is empty.
Delete(table, locked) ==
    LET free == Ids(table) \ locked IN
        IF free = {} THEN [err |-> ErrNoRows, id |-> 0]
        ELSE [err |-> Nil, id |-> CHOOSE i \in free : \A j \in free : i <= j]

\* OutBox.LoadAndDelete: the event, or nil and the error of Delete as it is.
LoadAndDelete(d) ==
    IF d.err # Nil THEN [evt |-> 0, err |-> d.err] ELSE [evt |-> d.id, err |-> Nil]

\* The closure of Outbox.Process up to the handler: no row is Empty, another
\* error is returned as it is, otherwise the handler gets the event.
Process(d) ==
    IF d.err = ErrNoRows THEN [invoke |-> FALSE, ret |-> Empty, evt |-> 0]
    ELSE IF d.err # Nil THEN [invoke |-> FALSE, ret |-> d.err, evt |-> 0]
         ELSE [invoke |-> TRUE, ret |-> Nil, evt |-> d.id]

\* What a call of revision r does with the result of Delete.  With
\* LoadAndDelete the body of the caller stands for the handler: it returns
\* the error it got (src/unnamed/part_021:87-92).
Load(r, d) ==
    IF r = "Process" THEN Process(d)
    ELSE LET l == LoadAndDelete(d) IN
             [invoke |-> l.err = Nil, ret |-> l.err, evt |-> l.evt]

PrOp == IF prRev = "Process" THEN "Process" ELSE "LoadAndDelete"

\* An Outbox.RunInTx that staged msgs commits: the rows get the next ids.
PrInsert(msgs) ==
    LET n == Len(prInserted)
        rows == Create(Params(msgs))
        new == [i \in 1..Len(rows) |->
                   [id |-> n + i, aggregate_id |-> rows[i].aggregate_id,
                    type |-> rows[i].type]]
    IN  /\ n + Len(msgs) <= MaxMsgs
        /\ prInserted' = prInserted \o new
        /\ prTable' = prTable \o new
        /\ UNCHANGED <<prRev, prWork, prLog, prLast, prRest>>

\* Worker w calls Process (or RunInTx and LoadAndDelete): the transaction
\* begins and Delete runs.  Without a row the call is over and the
\* transaction is rolled back.
PrProcess(w) ==
    LET locked == {prWork[v].row : v \in Workers \ {w}} \ {0}
        d == Delete(prTable, locked)
        l == Load(prRev, d)
        ex == ObExit("begin", Returned(l.ret), Nil)
    IN  /\ prWork[w].pc = "idle"
        /\ IF l.invoke
           THEN /\ prWork' = [prWork EXCEPT ![w] =
                                 [pc |-> "handler", row |-> l.evt,
                                  found |-> prTable,
                                  skipped |-> locked \cap Ids(prTable)]]
                /\ UNCHANGED prLast
           ELSE /\ prLast' = PrResult(PrOp, w, ex.ret, 0, FALSE, Nil, FALSE,
                                      prTable, locked \cap Ids(prTable))
                /\ UNCHANGED prWork
        /\ UNCHANGED <<prRev, prTable, prInserted, prLog, prRest>>

\* The handler of worker w returns e and Atomic.RunInTx commits or rolls
\* back: a commit makes the deletion durable, anything else frees the row.
PrHandler(w, e, failCommit) ==
    LET me == prWork[w]
        ex == ObExit("begin", Returned(e), DriverCommit("open", failCommit).err)
        st == RunCalls(ex.calls, "open", failCommit, FALSE)
    IN  /\ me.pc = "handler"
        /\ failCommit => e = Nil
        /\ prWork' = [prWork EXCEPT ![w] = PrOut]
        /\ prTable' = IF st = "committed" THEN Without(prTable, me.row)
                      ELSE prTable
        /\ prLog' = IF st = "committed" THEN Append(prLog, me.row) ELSE prLog
        /\ prLast' = PrResult(PrOp, w, ex.ret, me.row, TRUE, e,
                              st = "committed", me.found, me.skipped)
        /\ UNCHANGED <<prRev, prInserted, prRest>>

InitProcess ==
    /\ rev = "A"
    /\ TxIdle
    /\ MwIdle
    /\ LkIdle
    /\ ObIdle
    /\ FlIdle
    /\ LrIdle
    /\ CxIdle
    /\ NewIdle
    /\ prRev \in {"Process", "LoadAndDelete"}
    /\ prTable = <<>>
    /\ prInserted = <<>>
    /\ prWork = [w \in Workers |-> PrOut]
    /\ prLog = <<>>
    /\ prLast = PrNoResult

NextProcess ==
    \/ \E msgs \in MsgLists : PrInsert(msgs)
    \/ \E w \in Workers : PrProcess(w)
    \/ \E w \in Workers, e \in {Nil} \cup BodyErrors, failCommit \in BOOLEAN :
           PrHandler(w, e, failCommit)

SpecProcess == InitProcess /\ [][NextProcess]_vars

\* A call that loaded a row has returned.
Delivered == prLast.op # "none" /\ prLast.invoked

\* The lowest id of a non-empty set of ids.
Lowest(ids) == CHOOSE i \in ids : \A j \in ids : i <= j

\* C21: a call whose DELETE found no row locked by another transaction (as
\* every call of a sequence of calls does) gets the row of lowest id of the
\* table, and the row of id n holds the n-th message enqueued; deliveries
\* committed one after the other are therefore in ascending id order.
C21_AscendingIds ==
    /\ Delivered /\ prLast.skipped = {} =>
          /\ prLast.row = Lowest(Ids(prLast.found))
          /\ \E i \in 1..Len(prLast.found) :
                /\ prLast.found[i].id = prLast.row
                /\ prLast.found[i] = prInserted[prLast.row]
    /\ \A i \in 1..Len(prInserted) : prInserted[i].id = i
    /\ \A i, j \in 1..Len(prTable) : i < j => prTable[i].id < prTable[j].id

\* Two messages were enqueued, two calls made one after the other committed:
\* the second call has returned the second message.
C21_Witness ==
    /\ Len(prInserted) = 2
    /\ prInserted[1].aggregate_id # prInserted[2].aggregate_id
    /\ prLog = <<1, 2>>
    /\ Delivered /\ prLast.committed /\ prLast.row = 2
    /\ prLast.skipped = {} /\ Len(prLast.found) = 1

\* C22 as stated: a call that finds no row available returns Empty and its
\* handler does not run.
C22_EmptySentinel ==
    prLast.op # "none" /\ prLast.row = 0 =>
        prLast.ret = Empty /\ ~prLast.invoked

\* C23: two workers never hold the same row at once, no id is committed as
\* delivered twice, every row inserted is either still in the table or
\* committed as delivered, and once the table is empty and every worker is
\* out of its call the deliveries are exactly the rows inserted.
C23_Exclusive ==
    /\ \A w, v \in Workers :
          w # v /\ prWork[w].pc = "handler" /\ prWork[v].pc = "handler" =>
              prWork[w].row # prWork[v].row
    /\ \A i, j \in 1..Len(prLog) : i # j => prLog[i] # prLog[j]
    /\ Len(prLog) + Len(prTable) = Len(prInserted)
    /\ {prLog[i] : i \in 1..Len(prLog)} \cap Ids(prTable) = {}
    /\ (prTable = <<>> /\ \A w \in Workers : prWork[w].pc = "idle") =>
          {prLog[i] : i \in 1..Len(prLog)} = 1..Len(prInserted)

\* Two workers were in their handlers at once (the later DELETE skipped the
\* row locked by the earlier) and both committed: the table is empty.
C23_Witness ==
    /\ Len(prInserted) = 2
    /\ Len(prLog) = 2
    /\ prTable = <<>>
    /\ Delivered /\ prLast.committed
    /\ \A w \in Workers : prWork[w].pc = "idle"
    /\ \E i \in 1..2 : prLog[i] = 2 /\ prLog[3 - i] = 1
    /\ prLast.skipped # {}

\* The handler of worker w returns in this step.
HandlerReturns(w) == prWork[w].pc = "handler" /\ prWork'[w].pc = "idle"

\* C24: when the handler returns an error the call returns that error, the
\* table (and so the count) is as before and the row is free again; a row
\* leaves the table only when a call that got it from Delete commits; and
\* when the calls are made one after the other the next call gets the same
\* row again.
C24_HandlerError ==
    [][/\ \A w \in Workers :
             HandlerReturns(w) /\ prLast'.handler # Nil =>
                 /\ prLast'.ret = prLast'.handler
                 /\ ~prLast'.committed
                 /\ prTable' = prTable
                 /\ prLog' = prLog
                 /\ prLast'.row \in Ids(prTable')
                 /\ \A v \in Workers : prWork'[v].row # prLast'.row
       /\ \A id \in Ids(prTable) \ Ids(prTable') :
             /\ \E w \in Workers : HandlerReturns(w) /\ prWork[w].row = id
             /\ prLast'.handler = Nil /\ prLast'.committed
       /\ \A w \in Workers :
             (/\ Delivered /\ prLast.handler # Nil /\ prLast.skipped = {}
              /\ \A v \in Workers : prWork[v].pc = "idle"
              /\ prWork'[w].pc = "handler")
                 => prWork'[w].row = prLast.row]_vars

\* A handler failed on a row and the next call, made after it, has the same
\* row in its handler.
C24_Witness ==
    /\ Delivered /\ prLast.handler # Nil /\ prLast.ret = prLast.handler
    /\ \E w \in Workers : prWork[w].pc = "handler" /\ prWork[w].row = prLast.row
    /\ Len(prTable) = 2

\* ------------------------------------------------------------------------
\* Package outbox (generic, src/outbox/outbox.go): Outbox.RunInTx runs the
\* body inside atomic.RunInTx, gives the queued events to Write inside the
\* transaction and, when atomic.RunInTx returned nil, to Flush.  The atomic
\* is the unit of work of revision A.
\* ------------------------------------------------------------------------

ErrWriteFailed == "writer: write failed"

ErrFlushFailed == "flusher: flush failed"

\* The closure Outbox.RunInTx hands to atomic.RunInTx, once the body is over:
\* an error of the body is returned, otherwise Write gets the events.
WriteEvents(out, events, failWrite) ==
    IF out.kind # "nil" THEN [out |-> out, written |-> <<>>, wrote |-> FALSE]
    ELSE [out |-> Returned(IF failWrite THEN ErrWriteFailed ELSE Nil),
          written |-> events, wrote |-> TRUE]

\* Outbox.RunInTx after atomic.RunInTx returned err: an error is returned,
\* otherwise Flush gets the events and its result is returned.
FlushEvents(err, events, failFlush) ==
    IF err # Nil THEN [flush |-> FALSE, ret |-> err]
    ELSE [flush |-> TRUE, ret |-> IF failFlush THEN ErrFlushFailed ELSE Nil]

\* Outbox.RunInTx up to the body: called at the top with Background and in a
\* body with the body's context.  One transaction is followed; the calls
\* active and the calls that flushed are at most MaxDepth.
FlRunInTx(failBegin) ==
    LET ctx == IF flStack = <<>> THEN Background ELSE ChildCtx(Background, 1)
        plan == RunInTxA(Pool, ctx)
        b == OnBegin(ctx, 1, DriverBegin(failBegin))
    IN  /\ Len(flStack) + Len(flLog) < MaxDepth
        /\ IF plan.mode = "begin"
           THEN /\ flTx.state = "unused"
                /\ flTx' = [flTx EXCEPT !.state = IF b.run THEN "open" ELSE @]
                /\ flStack' = IF b.run
                              THEN Append(flStack, [mode |-> "begin", events |-> <<>>])
                              ELSE flStack
                /\ flLast' = IF b.run THEN flLast
                             ELSE [op |-> "RunInTx", ret |-> b.ret, outer |-> TRUE]
           ELSE /\ ~failBegin
                /\ flStack' = Append(flStack, [mode |-> "reenter", events |-> <<>>])
                /\ UNCHANGED <<flTx, flLast>>
        /\ UNCHANGED <<flLog, flRest>>

\* The innermost body calls Enqueue with its context.
FlEnqueue(msgs) ==
    LET n == Len(flStack)
        queued == [i \in 1..n |-> Len(flStack[i].events)]
        RECURSIVE Sum(_)
        Sum(i) == IF i = 0 THEN 0 ELSE queued[i] + Sum(i - 1)
    IN  /\ flStack # <<>>
        /\ Sum(n) + Len(flTx.written) + Len(msgs) <= MaxMsgs
        /\ flStack' = [flStack EXCEPT ![n].events = @ \o msgs]
        /\ UNCHANGED <<flTx, flLog, flLast, flRest>>

\* The innermost body returns e: Write, the end of atomic.RunInTx, Flush.
FlReturn(e, failWrite, failCommit, failFlush) ==
    LET top == flStack[Len(flStack)]
        w == WriteEvents(Returned(e), top.events, failWrite)
        ex == ObExit(top.mode, w.out, DriverCommit("open", failCommit).err)
        st == RunCalls(ex.calls, flTx.state, failCommit, FALSE)
        f == FlushEvents(ex.ret, top.events, failFlush)
    IN  /\ flStack # <<>>
        /\ failWrite => e = Nil
        /\ failCommit => "Commit" \in {ex.calls[i] : i \in 1..Len(ex.calls)}
        /\ failFlush => f.flush
        /\ flStack' = SubSeq(flStack, 1, Len(flStack) - 1)
        /\ flTx' = [state |-> st, written |-> flTx.written \o w.written]
        /\ flLog' = IF f.flush
                    THEN Append(flLog, [events |-> top.events,
                                        written |-> w.written, tx |-> st,
                                        wrote |-> w.wrote])
                    ELSE flLog
        /\ flLast' = [op |-> "RunInTx", ret |-> f.ret, outer |-> top.mode = "begin"]
        /\ UNCHANGED flRest

InitFlush ==
    /\ rev = "A"
    /\ TxIdle
    /\ MwIdle
    /\ LkIdle
    /\ ObIdle
    /\ PrIdle
    /\ FlIdle
    /\ LrIdle
    /\ CxIdle
    /\ NewIdle

NextFlush ==
    \/ \E failBegin \in BOOLEAN : FlRunInTx(failBegin)
    \/ \E msgs \in MsgLists : FlEnqueue(msgs)
    \/ \E e \in {Nil} \cup BodyErrors, failWrite, failCommit, failFlush \in BOOLEAN :
           FlReturn(e, failWrite, failCommit, failFlush)

SpecFlush == InitFlush /\ [][NextFlush]_vars

\* C25 as stated: every call of Flush came after the commit of the
\* transaction its events were written in and got exactly the events given to
\* Write, and a transaction that ended without commit has seen no Flush.
C25_FlushAfterCommit ==
    /\ \A i \in 1..Len(flLog) :
          /\ flLog[i].tx = "committed"
          /\ flLog[i].wrote /\ flLog[i].events = flLog[i].written
    /\ flTx.state \in {"rolledback", "aborted"} => flLog = <<>>

\* ------------------------------------------------------------------------
\* Locker (src/postgres/lock/lock.go:17-54 on Atomic.RunInTx of revision A,
\* lock.go:118-156 on the helper RunInTx of revision B): lock derives a
\* cancellable context, starts a worker and waits on an unbuffered channel
\* for the result of lockFn; the worker runs lockFn in a transaction of its
\* own and, when it got the key, stays in the body until the context is done.
\* ------------------------------------------------------------------------

ErrCanceled == "context canceled"

\* The key the callers contend for.
LockerKey == "k1"

\* lockFn(txCtx, key) run by the worker: Lock or TryLock of the package on the
\* worker's transaction; the statement fails when the context is done.
lockFn(op, r, ctx, k, held, done) ==
    IF done THEN [ret |-> ErrCanceled, got |-> FALSE, wait |-> FALSE]
    ELSE LET x == IF op = "Lock" THEN Lock(r, ctx, k, held)
                  ELSE TryLock(r, ctx, k, held)
         IN  [ret |-> x.ret, got |-> x.got, wait |-> x.wait]

HoldEndsAtOnce(err, done) ==
    [returns |-> TRUE, ret |-> IF err # Nil THEN err ELSE ErrCanceled]

HoldReturnsNil(err, done) ==
    IF err # Nil THEN [returns |-> TRUE, ret |-> err]
    ELSE [returns |-> done, ret |-> Nil]

\* The body of the worker after `ch <- err`: an error ends it at once,
\* otherwise it waits on ctx.Done() and returns ctx.Err().
Hold(err, done) ==
    IF err # Nil THEN [returns |-> TRUE, ret |-> err]
    ELSE [returns |-> done, ret |-> ErrCanceled]

\* Caller c calls Locker.Lock or Locker.TryLock, with a context that is
\* already cancelled or not: the worker starts and the caller waits on ch.
LrCall(c, op, cancelled) ==
    /\ lrCall[c].pc = "idle"
    /\ lrCall' = [lrCall EXCEPT ![c] = [pc |-> "waiting", op |-> op, ret |-> Nil]]
    /\ lrWork' = [lrWork EXCEPT ![c].pc = "begin"]
    /\ lrDone' = [lrDone EXCEPT ![c] = cancelled]
    /\ UNCHANGED <<lrHeld, lrRest>>

\* The worker's RunInTx begins its transaction; when BeginTx fails RunInTx
\* returns the error and the goroutine ends.
LrBegin(c, failBegin) ==
    LET beginErr == IF lrDone[c] THEN ErrCanceled ELSE DriverBegin(failBegin)
        b == OnBegin(Background, c, beginErr)
    IN  /\ lrWork[c].pc = "begin"
        /\ failBegin => ~lrDone[c]
        /\ lrWork' = [lrWork EXCEPT ![c] =
                         IF b.run THEN [@ EXCEPT !.pc = "lock", !.tx = "open"]
                         ELSE [@ EXCEPT !.pc = "done"]]
        /\ UNCHANGED <<lrCall, lrDone, lrHeld, lrRest>>

\* The worker runs lockFn: the statement returns or blocks.
LrLock(c) ==
    LET x == lockFn(lrCall[c].op, rev, ChildCtx(Background, c), LockerKey,
                    lrHeld, lrDone[c])
    IN  /\ lrWork[c].pc = "lock"
        /\ lrWork' = [lrWork EXCEPT ![c] =
                         [@ EXCEPT !.pc = IF x.wait THEN "blocked" ELSE "send",
                                   !.err = IF x.wait THEN Nil ELSE x.ret,
                                   !.saw = lrHeld[LockerKey]]]
        /\ lrHeld' = IF x.got /\ lrWork[c].tx = "open"
                     THEN Grant(lrHeld, c, LockerKey) ELSE lrHeld
        /\ UNCHANGED <<lrCall, lrDone, lrRest>>

\* The database grants the key the worker's Lock waits for.
LrGranted(c) ==
    /\ lrWork[c].pc = "blocked"
    /\ ~lrDone[c]
    /\ Grantable(lrHeld, c, LockerKey)
    /\ lrHeld' = Grant(lrHeld, c, LockerKey)
    /\ lrWork' = [lrWork EXCEPT ![c].pc = "send", ![c].err = Nil]
    /\ UNCHANGED <<lrCall, lrDone, lrRest>>

\* The context is done while the worker's Lock waits: the statement fails.
LrAborted(c) ==
    /\ lrWork[c].pc = "blocked"
    /\ lrDone[c]
    /\ lrWork' = [lrWork EXCEPT ![c].pc = "send", ![c].err = ErrCanceled]
    /\ UNCHANGED <<lrCall, lrDone, lrHeld, lrRest>>

\* `ch <- err` meets the caller's `<-ch`: lock returns (cancel, err).
LrSend(c) ==
    /\ lrWork[c].pc = "send"
    /\ lrCall[c].pc = "waiting"
    /\ lrCall' = [lrCall EXCEPT ![c].pc = "returned", ![c].ret = lrWork[c].err]
    /\ lrWork' = [lrWork EXCEPT ![c].pc = "hold"]
    /\ UNCHANGED <<lrDone, lrHeld, lrRest>>

\* The body of the worker returns and its RunInTx ends the transaction.
LrExit(c) ==
    LET h == Hold(lrWork[c].err, lrDone[c])
        ex == RunInTxExit(rev, Returned(h.ret), Nil, Nil)
        st == RunCalls(ex.calls, lrWork[c].tx, FALSE, FALSE)
    IN  /\ lrWork[c].pc = "hold"
        /\ h.returns
        /\ lrWork' = [lrWork EXCEPT ![c].pc = "done", ![c].tx = st]
        /\ lrHeld' = Release(lrHeld, c, "rollback")
        /\ UNCHANGED <<lrCall, lrDone, lrRest>>

\* The context of the call is cancelled: by the caller's context at any
\* time, or by the cancel function lock returned.
LrCancel(c) ==
    /\ lrCall[c].pc \in {"waiting", "returned"}
    /\ ~lrDone[c]
    /\ lrDone' = [lrDone EXCEPT ![c] = TRUE]
    /\ UNCHANGED <<lrCall, lrWork, lrHeld, lrRest>>

\* database/sql rolls back a transaction begun with a context once that
\* context is done.
LrAwaitDone(c) ==
    /\ lrDone[c]
    /\ lrWork[c].tx = "open"
    /\ lrWork' = [lrWork EXCEPT ![c].tx = DriverRollback("open", FALSE).st]
    /\ lrHeld' = Release(lrHeld, c, "rollback")
    /\ UNCHANGED <<lrCall, lrDone, lrRest>>

InitLocker ==
    /\ rev \in {"A", "B"}
    /\ TxIdle
    /\ MwIdle
    /\ LkIdle
    /\ ObIdle
    /\ PrIdle
    /\ FlIdle
    /\ LrIdle
    /\ CxIdle
    /\ NewIdle

\* What the worker of c and the database do on their own.
LrWorker(c) ==
    \/ \E failBegin \in BOOLEAN : LrBegin(c, failBegin)
    \/ LrLock(c)
    \/ LrAborted(c)
    \/ LrSend(c)
    \/ LrExit(c)
    \/ LrAwaitDone(c)

NextLocker ==
    \/ \E c \in Callers, op \in {"Lock", "TryLock"}, cancelled \in BOOLEAN :
           LrCall(c, op, cancelled)
    \/ \E c \in Callers : LrWorker(c)
    \/ \E c \in Callers : LrGranted(c)
    \/ \E c \in Callers : LrCancel(c)

SpecLocker == InitLocker /\ [][NextLocker]_vars

\* Goroutines that can run do run, and the database grants a free key to a
\* waiter; nothing is assumed about when a caller cancels.
SpecLockerFair ==
    /\ SpecLocker
    /\ \A c \in Callers : WF_vars(LrWorker(c)) /\ SF_vars(LrGranted(c))

\* The worker of c waits for a key another transaction holds.
LrBlocked(c) ==
    lrWork[c].pc = "blocked" /\ ~Grantable(lrHeld, c, LockerKey) /\ ~lrDone[c]

\* C26 as stated: a Locker call that was made returns, unless its Lock still
\* waits for a key another transaction holds.
C26_Returns ==
    \A c \in Callers :
        lrCall[c].pc = "waiting" ~> (lrCall[c].pc = "returned" \/ LrBlocked(c))

\* C27: while a call that returned nil is not cancelled its worker's
\* transaction is open and holds the key, a TryLock that found the key held
\* by another transaction returned ErrAlreadyLocked, and once the call is
\* cancelled the key is released.
C27_HeldUntilCancel ==
    /\ [](\A c \in Callers :
             /\ (lrCall[c].pc = "returned" /\ lrCall[c].ret = Nil /\ ~lrDone[c]) =>
                    lrHeld[LockerKey] = c /\ lrWork[c].tx = "open"
             /\ (/\ lrWork[c].pc \in {"send", "hold", "done"}
                 /\ lrCall[c].op = "TryLock"
                 /\ lrWork[c].saw \notin {0, c}
                 /\ lrWork[c].err # ErrCanceled) =>
                    lrWork[c].err = ErrAlreadyLocked)
    /\ \A c \in Callers :
          (lrDone[c] /\ lrHeld[LockerKey] = c) ~> (lrHeld[LockerKey] # c)

\* One call returned nil and is not cancelled; the TryLock of the other
\* found the key held and returned ErrAlreadyLocked.
C27_Witness ==
    \E c, d \in Callers :
        /\ c # d
        /\ lrCall[c].pc = "returned" /\ lrCall[c].ret = Nil /\ ~lrDone[c]
        /\ lrCall[d].pc = "returned" /\ lrCall[d].op = "TryLock"
        /\ lrCall[d].ret = ErrAlreadyLocked /\ lrWork[d].saw = c

\* C28: no transaction of a worker is committed, a worker that ended left
\* no transaction open, a failed acquisition is followed by the rollback
\* whether or not the caller cancels, and so is a cancellation.
C28_NoLeak ==
    /\ [](\A c \in Callers :
             /\ lrWork[c].tx \notin {"committed", "aborted"}
             /\ lrWork[c].pc = "done" => lrWork[c].tx \in {"unused", "rolledback"})
    /\ \A c \in Callers :
          /\ (lrWork[c].pc = "send" /\ lrWork[c].err # Nil /\ lrWork[c].tx = "open")
                ~> (lrWork[c].tx = "rolledback")
          /\ (lrWork[c].tx = "open" /\ lrDone[c]) ~> (lrWork[c].tx = "rolledback")

\* The acquisition of a worker failed, its call is not cancelled and its
\* transaction is rolled back.
C28_Witness ==
    \E c \in Callers :
        /\ lrWork[c].pc = "done" /\ lrWork[c].err = ErrAlreadyLocked
        /\ ~lrDone[c] /\ lrWork[c].tx = "rolledback"

\* ------------------------------------------------------------------------
\* Options and cancellation carried by the context (src/unnamed/part_022:
\* 8-40; RunInTx of src/dbtx.go:84-101 and 206-248).
\* ------------------------------------------------------------------------

\* Calls of ReadOnly and IsolationLevel on one context.
MaxSets == 2

\* sql.IsolationLevel: LevelDefault .. LevelLinearizable.
Levels == LevelDefault..LevelLinearizable

roCtxKey == "ro"

isoCtxKey == "iso"

\* A value of a context (an `any`): its dynamic type and the bool or the
\* isolation level it holds.
BoolVal(b) == [type |-> "bool", bool |-> b, level |-> LevelDefault]

LevelVal(l) == [type |-> "sql.IsolationLevel", bool |-> FALSE, level |-> l]

\* context.WithValue: a context that holds v under key on top of ctx.
CtxWithValue(ctx, key, v) == Append(ctx, [key |-> key, val |-> v])

\* ctxKey[T].Value: ctx.Value(key).(T), the value stored last under key when
\* it is a T, or the zero value of T and false.
CtxValue(ctx, key, zero) ==
    LET at == {i \in 1..Len(ctx) : ctx[i].key = key}
        v == ctx[CHOOSE i \in at : \A j \in at : i >= j].val
    IN  IF at = {} \/ v.type # zero.type THEN <<zero, FALSE>> ELSE <<v, TRUE>>

ReadOnly(ctx, readOnly) == CtxWithValue(ctx, roCtxKey, BoolVal(readOnly))

IsolationLevel(ctx, isoLevel) == CtxWithValue(ctx, isoCtxKey, LevelVal(isoLevel))

TxOptionsOldest(ctx) ==
    LET ro == {i \in 1..Len(ctx) : ctx[i].key = roCtxKey}
        iso == {i \in 1..Len(ctx) : ctx[i].key = isoCtxKey}
    IN  [ReadOnly |-> IF ro = {} THEN FALSE
                      ELSE ctx[CHOOSE i \in ro : \A j \in ro : i <= j].val.bool,
         Isolation |-> IF iso = {} THEN LevelDefault
                       ELSE ctx[CHOOSE i \in iso : \A j \in iso : i <= j].val.level]

\* TxOptions: both values read from the context, the lookups' ok dropped.
TxOptions(ctx) ==
    LET readOnly == CtxValue(ctx, roCtxKey, BoolVal(FALSE))[1].bool
        isolation == CtxValue(ctx, isoCtxKey, LevelVal(LevelDefault))[1].level
    IN  [ReadOnly |-> readOnly, Isolation |-> isolation]

\* database/sql: Commit of a transaction whose context is done commits
\* nothing and returns ErrTxDone when the transaction is over, the context's
\* error otherwise.
CommitCtx(st, done, fail) ==
    IF ~done THEN DriverCommit(st, fail)
    ELSE [st |-> st, err |-> IF st # "open" THEN ErrTxDone ELSE ErrCanceled]

\* The driver calls of one RunInTx exit on a context that is done or not.
RECURSIVE RunCallsCtx(_, _, _, _)
RunCallsCtx(calls, st, done, failC) ==
    IF calls = <<>> THEN st
    ELSE RunCallsCtx(Tail(calls),
                     IF Head(calls) = "Commit" THEN CommitCtx(st, done, failC).st
                     ELSE DriverRollback(st, FALSE).st,
                     done, failC)

CxReadOnly(b) ==
    /\ cxPc = "top"
    /\ Len(cxCtx) < MaxSets
    /\ cxCtx' = ReadOnly(cxCtx, b)
    /\ cxSet' = [cxSet EXCEPT !.roSet = TRUE, !.ro = b]
    /\ UNCHANGED <<cxPc, cxTx, cxDone, cxLast, cxRest>>

CxIsolationLevel(l) ==
    /\ cxPc = "top"
    /\ Len(cxCtx) < MaxSets
    /\ cxCtx' = IsolationLevel(cxCtx, l)
    /\ cxSet' = [cxSet EXCEPT !.isoSet = TRUE, !.iso = l]
    /\ UNCHANGED <<cxPc, cxTx, cxDone, cxLast, cxRest>>

\* RunInTx with the context: BeginTx(ctx, TxOptions(ctx)), then the body.
CxRunInTx(failBegin) ==
    LET b == OnBegin(Background, 1, DriverBegin(failBegin)) IN
        /\ cxPc = "top"
        /\ cxPc' = IF b.run THEN "body" ELSE "returned"
        /\ cxTx' = IF b.run THEN [state |-> "open", opts |-> TxOptions(cxCtx)]
                   ELSE cxTx
        /\ cxLast' = IF b.run THEN cxLast
                     ELSE [out |-> Nil, ret |-> b.ret, cancelled |-> FALSE]
        /\ UNCHANGED <<cxCtx, cxSet, cxDone, cxRest>>

\* The context is cancelled while the body runs.
CxCancel ==
    /\ cxPc = "body"
    /\ ~cxDone
    /\ cxDone' = TRUE
    /\ UNCHANGED <<cxCtx, cxSet, cxPc, cxTx, cxLast, cxRest>>

\* database/sql rolls back a transaction begun with a context once that
\* context is done.
CxAwaitDone ==
    /\ cxDone
    /\ cxTx.state = "open"
    /\ cxTx' = [cxTx EXCEPT !.state = DriverRollback("open", FALSE).st]
    /\ UNCHANGED <<cxCtx, cxSet, cxPc, cxDone, cxLast, cxRest>>

\* The body returns e, having looked at the context or not, and RunInTx ends.
CxReturn(e, failCommit) ==
    LET c == CommitCtx(cxTx.state, cxDone, failCommit)
        ex == RunInTxExit(rev, Returned(e), c.err, Nil)
    IN  /\ cxPc = "body"
        /\ failCommit => e = Nil /\ ~cxDone
        /\ cxPc' = "returned"
        /\ cxTx' = [cxTx EXCEPT !.state =
                       RunCallsCtx(ex.calls, @, cxDone, failCommit)]
        /\ cxLast' = [out |-> e, ret |-> ex.ret, cancelled |-> cxDone]
        /\ UNCHANGED <<cxCtx, cxSet, cxDone, cxRest>>

InitCtx ==
    /\ rev \in {"A", "B"}
    /\ TxIdle
    /\ MwIdle
    /\ LkIdle
    /\ ObIdle
    /\ PrIdle
    /\ FlIdle
    /\ LrIdle
    /\ CxIdle
    /\ NewIdle

NextCtx ==
    \/ \E b \in BOOLEAN : CxReadOnly(b)
    \/ \E l \in Levels : CxIsolationLevel(l)
    \/ \E failBegin \in BOOLEAN : CxRunInTx(failBegin)
    \/ CxCancel
    \/ CxAwaitDone
    \/ \E e \in {Nil, ErrCanceled} \cup BodyErrors, failCommit \in BOOLEAN :
           CxReturn(e, failCommit)

SpecCtx == InitCtx /\ [][NextCtx]_vars

\* The options last given to IsolationLevel and ReadOnly, the defaults where
\* none was given.
Stored ==
    [ReadOnly |-> IF cxSet.roSet THEN cxSet.ro ELSE FALSE,
     Isolation |-> IF cxSet.isoSet THEN cxSet.iso ELSE LevelDefault]

\* C29: TxOptions of the context is what was stored last, the defaults where
\* nothing was stored; a call of ReadOnly leaves the isolation level as it
\* was and a call of IsolationLevel the read-only flag; and the transaction
\* RunInTx began got exactly these options.
C29_TxOptions ==
    /\ [](TxOptions(cxCtx) = Stored)
    /\ [](cxTx.state # "unused" => cxTx.opts = Stored)
    /\ [][/\ cxSet'.ro # cxSet.ro \/ cxSet'.roSet # cxSet.roSet =>
                TxOptions(cxCtx').Isolation = TxOptions(cxCtx).Isolation
          /\ cxSet'.iso # cxSet.iso \/ cxSet'.isoSet # cxSet.isoSet =>
                TxOptions(cxCtx').ReadOnly = TxOptions(cxCtx).ReadOnly]_vars

\* The read-only flag was stored twice with different values, then an
\* isolation level was not, and the transaction began read-only with the
\* default level.
C29_Witness ==
    /\ Len(cxCtx) = 2
    /\ cxCtx[1] = [key |-> roCtxKey, val |-> BoolVal(FALSE)]
    /\ cxCtx[2] = [key |-> roCtxKey, val |-> BoolVal(TRUE)]
    /\ cxTx.state = "open"
    /\ cxTx.opts = [ReadOnly |-> TRUE, Isolation |-> LevelDefault]

\* C30 as stated: when the context was cancelled while the body ran, the
\* transaction is not committed, it is rolled back (or database/sql is about
\* to roll it back), and RunInTx returns an error, which is the context's
\* error when the body returned nil.
C30_CancelDuringBody ==
    cxPc = "returned" /\ cxLast.cancelled =>
        /\ cxTx.state \in {"rolledback", "open"}
        /\ cxLast.ret # Nil
        /\ cxLast.out = Nil => cxLast.ret = ErrCanceled

\* ------------------------------------------------------------------------
\* The scope of the binding.  Atomics are built with New, each over its own
\* pool; the bodies on one call chain call RunInTx, DBTx and Tx with any
\* context they hold: the one their caller passed in, the child context they
\* were given, or the child context an earlier body was given and kept.
\* Statements are told apart by where they were issued and where they ran.
\* The revision is "A": Atomic{db, fns} with the context of part_022.
\* ------------------------------------------------------------------------

\* Statements that may be issued in one run.
MaxStmts == 2

\* RunInTx invocations that may be active at once.
ScDepth == 2

\* Transactions the two pools may begin in one run.
ScMaxTx == 1

\* One RunInTx invocation on the atomic at; wrote: its body has issued a
\* statement that a transaction holds.
ScFrame(at, ctx, child, mode, tx) ==
    [atomic |-> at, ctx |-> ctx, child |-> child, mode |-> mode, tx |-> tx,
     wrote |-> FALSE]

\* Where a statement is issued: at the "top", or in the body of an invocation
\* that took the "begin" or the "reenter" branch.
ScIn == IF scStack = <<>> THEN "top" ELSE scStack[Len(scStack)].mode

\* The atomics of the run.
ScAtomics == IF scRun = "two" THEN Atomics ELSE {1}

\* The next transaction the driver hands out.
ScNextTx == 1 + Cardinality({t \in TxIds : scTx[t].state # "unused"})

\* Every statement that reached a database.
ScStmts ==
    UNION {scDb[p] : p \in Atomics} \cup UNION {scTx[t].rows : t \in TxIds}

\* The contexts a body can pass: Background, the contexts of the active
\* invocations and the child contexts that were kept.
ScContexts ==
    {Background}
        \cup {scStack[i].ctx : i \in 1..Len(scStack)}
        \cup {scStack[i].child : i \in 1..Len(scStack)}
        \cup (IF scRun = "kept"
              THEN {ChildCtx(Background, t) :
                        t \in {u \in TxIds : scTx[u].state # "unused"}}
              ELSE {})

\* IsTx of the revision.
ScIsTx(ctx) == IF rev = "A" THEN IsTxA(ctx) ELSE IsTxB(ctx)

\* at.RunInTx(ctx, body) up to the invocation of the body.
ScRunInTx(at, ctx) ==
    LET plan == RunInTxPlan(rev, Pool, ctx)
        b == OnBegin(ctx, ScNextTx, DriverBegin(FALSE))
    IN  /\ Len(scStack) < ScDepth
        /\ IF plan.mode = "reenter"
           THEN /\ scStack' = Append(scStack,
                                     ScFrame(at, ctx, plan.child, "reenter", 0))
                /\ UNCHANGED scTx
           ELSE /\ ScNextTx <= ScMaxTx
                /\ scStack' = Append(scStack,
                                     ScFrame(at, ctx, b.child, "begin", ScNextTx))
                /\ scTx' = [scTx EXCEPT ![ScNextTx] =
                               [@ EXCEPT !.state = "open", !.pool = at]]
        /\ UNCHANGED <<scRun, scDb, scRest>>

\* The innermost body returns e and its RunInTx ends: Commit makes the
\* statements of the transaction durable.
ScReturn(e) ==
    LET f == scStack[Len(scStack)]
        began == f.mode = "begin"
        t == IF began THEN f.tx ELSE f.ctx.bind.tx
        st == scTx[t].state
        ex == IF began
              THEN RunInTxExit(rev, Returned(e), DriverCommit(st, FALSE).err,
                               DriverRollback(st, FALSE).err)
              ELSE Passthrough(Returned(e))
        end == RunCalls(ex.calls, st, FALSE, FALSE)
    IN  /\ scStack # <<>>
        /\ scStack' = SubSeq(scStack, 1, Len(scStack) - 1)
        /\ scTx' = [scTx EXCEPT ![t].state = end,
                                ![t].failed = @ \/ (~began /\ e # Nil /\ f.wrote)]
        /\ scDb' = IF st = "open" /\ end = "committed"
                   THEN [scDb EXCEPT ![scTx[t].pool] = @ \cup scTx[t].rows]
                   ELSE scDb
        /\ UNCHANGED <<scRun, scRest>>

\* at.DBTx(ctx) or at.Tx(ctx) and one statement on the handle it gives: the
\* pool makes it durable at once, an open transaction holds it, a finished
\* transaction refuses it.  The statement records where it was issued, the
\* atomic it was issued through, whether the context reported IsTx and the
\* transaction it ran on (0: the pool of the atomic).
ScUse(m, at, ctx) ==
    LET g == Get(rev, m, Pool, ctx)
        h == g.handle
        stmt == [in |-> ScIn, via |-> at, bound |-> ScIsTx(ctx), tx |-> h.tx]
    IN  /\ g.pan = NoPanic
        /\ Cardinality(ScStmts) < MaxStmts
        /\ stmt \notin ScStmts
        /\ h.kind = "tx" => scTx[h.tx].state = "open"
        /\ IF h.kind = "db"
           THEN /\ scDb' = [scDb EXCEPT ![at] = @ \cup {stmt}]
                /\ UNCHANGED <<scTx, scStack>>
           ELSE /\ scTx' = [scTx EXCEPT ![h.tx].rows = @ \cup {stmt}]
                /\ scStack' = IF scStack = <<>> THEN scStack
                              ELSE [scStack EXCEPT ![Len(scStack)].wrote = TRUE]
                /\ UNCHANGED scDb
        /\ UNCHANGED <<scRun, scRest>>

InitScope ==
    /\ rev = "A"
    /\ TxIdle
    /\ MwIdle
    /\ LkIdle
    /\ ObIdle
    /\ PrIdle
    /\ FlIdle
    /\ LrIdle
    /\ CxIdle
    /\ scRun \in {"one", "kept", "two"}
    /\ scStack = <<>>
    /\ scTx = [t \in TxIds |->
                  [state |-> "unused", pool |-> 0, rows |-> {},
                   failed |-> FALSE]]
    /\ scDb = [p \in Atomics |-> {}]
    /\ LgIdle
    /\ KyIdle
    /\ TlIdle

NextScope ==
    \/ \E at \in ScAtomics, ctx \in ScContexts : ScRunInTx(at, ctx)
    \/ \E e \in {Nil} \cup BodyErrors : ScReturn(e)
    \/ \E m \in {"DBTx", "Tx"}, at \in ScAtomics, ctx \in ScContexts :
           ScUse(m, at, ctx)

SpecScope == InitScope /\ [][NextScope]_vars

\* The statements that ran on a pool directly, outside every transaction.
Autocommitted(db, p) == {r \in db[p] : r.tx = 0}

\* C31: the context passed to a RunInTx that began a transaction reports
\* IsTx = false while the body runs, only the child context reports true,
\* and DBTx of the passed context gives the pool; a statement issued with a
\* context that reports IsTx = false, in a body or after it, ran on the pool
\* of its atomic, is durable there and is held by no transaction, and it
\* stays durable whatever happens to the transaction in whose body it was
\* issued.
C31_ParentUnbound ==
    /\ [](\A i \in 1..Len(scStack) :
              scStack[i].mode = "begin" =>
                  /\ ~ScIsTx(scStack[i].ctx)
                  /\ ScIsTx(scStack[i].child)
                  /\ Get(rev, "DBTx", Pool, scStack[i].ctx) = Handle(Pool))
    /\ [](\A r \in ScStmts :
              ~r.bound => /\ r.tx = 0
                          /\ r \in scDb[r.via]
                          /\ \A t \in TxIds : r \notin scTx[t].rows)
    /\ [][\A p \in Atomics :
              Autocommitted(scDb, p) \subseteq Autocommitted(scDb', p)]_vars

\* C31 witness: a body wrote through its child context and through the
\* context its caller had passed in, then returned an error: the transaction
\* is rolled back, its statement is not durable and the other one is.
C31_Witness ==
    /\ scStack = <<>>
    /\ scTx[1].state = "rolledback"
    /\ scTx[2].state = "unused"
    /\ scTx[1].rows = {[in |-> "begin", via |-> 1, bound |-> TRUE, tx |-> 1]}
    /\ scDb[1] = {[in |-> "begin", via |-> 1, bound |-> FALSE, tx |-> 0]}

\* C32: a re-entrant RunInTx that returns, with an error or without, changes
\* neither the state of the transaction nor what it holds nor what is
\* durable; and a committed transaction has made every statement it held
\* durable on its pool, those of a failed inner body included.
C32_NoSubScope ==
    /\ [][(/\ scStack # <<>>
           /\ scStack[Len(scStack)].mode = "reenter"
           /\ Len(scStack') < Len(scStack))
              => /\ scDb' = scDb
                 /\ \A t \in TxIds : /\ scTx'[t].state = scTx[t].state
                                     /\ scTx'[t].rows = scTx[t].rows]_vars
    /\ [](\A t \in TxIds :
              scTx[t].state = "committed" =>
                  scTx[t].rows \subseteq scDb[scTx[t].pool])

\* C32 witness: an inner body wrote and failed, the enclosing body returned
\* nil, and the transaction is committed with the inner statement durable.
C32_Witness ==
    /\ scStack = <<>>
    /\ scTx[1].state = "committed"
    /\ scTx[1].failed
    /\ [in |-> "reenter", via |-> 1, bound |-> TRUE, tx |-> 1] \in scDb[1]

\* The transaction a frame runs its body on.
ScTxOf(f) == IF f.mode = "begin" THEN f.tx ELSE f.ctx.bind.tx

\* C36: every body RunInTx is running runs on an open transaction, and
\* DBTx and Tx of every context a caller holds give the pool or an open
\* transaction, never one that was committed or rolled back.
C36_OpenTxOnly ==
    /\ \A i \in 1..Len(scStack) : scTx[ScTxOf(scStack[i])].state = "open"
    /\ \A ctx \in ScContexts, m \in {"DBTx", "Tx"} :
           LET g == Get(rev, m, Pool, ctx)
           IN  (g.pan = NoPanic /\ g.handle.kind = "tx")
                   => scTx[g.handle.tx].state = "open"

\* C37: a statement issued through an atomic ran on the pool of that atomic
\* or on a transaction begun on it, and a body an atomic runs is on a
\* transaction begun on its own pool, whichever atomic bound the context.
C37_OwnPool ==
    /\ \A p \in Atomics : \A r \in scDb[p] : r.tx = 0 => r.via = p
    /\ \A t \in TxIds : \A r \in scTx[t].rows : scTx[t].pool = r.via
    /\ \A i \in 1..Len(scStack) :
           scTx[ScTxOf(scStack[i])].pool = scStack[i].atomic

\* C38: in the revision with `defer tx.Rollback()`, every RunInTx that began
\* a transaction has called Rollback exactly once, as its last driver call,
\* however the body ended; when the body returned nil the calls are Commit
\* and then Rollback, RunInTx returns what Commit returned (nil exactly
\* when the transaction is committed, the commit error otherwise, never the
\* result of the Rollback) and the statements of a committed transaction
\* are durable after the Rollback.
C38_DeferredRollback ==
    rev = "A" =>
        \A c \in Chains :
            Began(c) =>
                LET t == last[c].frame.tx
                    calls == last[c].calls
                IN  /\ calls # <<>>
                    /\ calls[Len(calls)] = "Rollback"
                    /\ Count(calls, "Rollback") = 1
                    /\ nRollback[t] = 1
                    /\ last[c].out.kind = "nil" =>
                           /\ calls = <<"Commit", "Rollback">>
                           /\ last[c].pan = NoPanic
                           /\ last[c].ret \in {Nil, ErrCommitFailed}
                           /\ last[c].ret = Nil <=> txState[t] = "committed"
                           /\ last[c].ret = ErrCommitFailed <=> txState[t] = "aborted"
                           /\ txState[t] = "committed" =>
                                  persisted[t] = last[c].wrote

\* C38 witness: in that revision a body wrote and returned nil; Commit and
\* then Rollback were called, the transaction is committed and its
\* statement is durable.
C38_Witness ==
    /\ rev = "A"
    /\ \E c \in Chains :
           /\ Began(c)
           /\ last[c].out.kind = "nil"
           /\ last[c].calls = <<"Commit", "Rollback">>
           /\ last[c].ret = Nil
           /\ last[c].wrote
           /\ txState[last[c].frame.tx] = "committed"
           /\ persisted[last[c].frame.tx]

\* ------------------------------------------------------------------- logger

\* The calls made on one Logger-wrapped handle by one goroutine.
MaxLogs == 2

ContextMethods == {"ExecContext", "PrepareContext", "QueryContext", "QueryRowContext"}
PlainMethods == {"Exec", "Prepare", "Query", "QueryRow"}
\* Prepare and PrepareContext take a query and no arguments.
PrepareMethods == {"Prepare", "PrepareContext"}
LgContexts == {Background, ChildCtx(Background, 1)}
LgQueries == {"select 1", "insert into numbers(n) values ($1)"}
LgArgs == {<<>>, <<1>>}

\* A call on the wrapper: a non-context method is given no context.
LgCallOf(m, ctx, query, args) ==
    [method |-> m, hasCtx |-> m \in ContextMethods, ctx |-> ctx,
     query |-> query, args |-> args]

LgCallsOf ==
    {LgCallOf(m, ctx, q, a) : m \in ContextMethods \ PrepareMethods,
                              ctx \in LgContexts, q \in LgQueries, a \in LgArgs}
    \cup {LgCallOf(m, Background, q, a) : m \in PlainMethods \ PrepareMethods,
                                         ctx \in {Background}, q \in LgQueries,
                                         a \in LgArgs}
    \cup {LgCallOf("PrepareContext", ctx, q, <<>>) : ctx \in LgContexts,
                                                    q \in LgQueries}
    \cup {LgCallOf("Prepare", Background, q, <<>>) : q \in LgQueries}

\* What the sink or the wrapped handle receives.
LgEvent(to, m, hasCtx, ctx, query, args) ==
    [to |-> to, method |-> m, hasCtx |-> hasCtx, ctx |-> ctx,
     query |-> query, args |-> args]

\* A wrapper that logs the query without its arguments.
LoggerLogNoArgs(call) ==
    LgEvent("sink", call.method, TRUE,
            IF call.hasCtx THEN call.ctx ELSE Background, call.query, <<>>)

\* r.l.Log(ctx, "<method>", query, args...): the non-context methods pass
\* context.Background(), Prepare and PrepareContext pass no arguments.
LoggerLog(call) ==
    LgEvent("sink", call.method, TRUE,
            IF call.hasCtx THEN call.ctx ELSE Background, call.query,
            IF call.method \in PrepareMethods THEN <<>> ELSE call.args)

\* return r.dbtx.<method>(...): the same method with the same parameters.
LoggerDelegate(call) ==
    LgEvent("handle", call.method, call.hasCtx, call.ctx, call.query,
            IF call.method \in PrepareMethods THEN <<>> ELSE call.args)

\* A method of the wrapper up to and including its call of the sink.
LgMethod(call) ==
    /\ Len(lgCalls) < MaxLogs
    /\ Len(lgSink) = 2 * Len(lgCalls)
    /\ lgCalls' = Append(lgCalls, call)
    /\ lgSink' = Append(lgSink, LoggerLog(call))
    /\ UNCHANGED lgRest

\* The sink returned: the method delegates to the wrapped handle and returns.
LgDelegate ==
    /\ Len(lgSink) = 2 * Len(lgCalls) - 1
    /\ lgSink' = Append(lgSink, LoggerDelegate(lgCalls[Len(lgCalls)]))
    /\ UNCHANGED <<lgCalls, lgRest>>

InitLogger == Init /\ rev = "A"

NextLogger ==
    \/ \E call \in LgCallsOf : LgMethod(call)
    \/ LgDelegate

SpecLogger == InitLogger /\ [][NextLogger]_vars

\* C33: the i-th call made on the wrapper has put exactly one record on the
\* sink, with its method name, its query and its arguments, and with its
\* context or, for a non-context method, the background context; the
\* wrapped handle has received the call only after that record, with the
\* same method, context, query and arguments as the caller gave; and
\* nothing else reaches the sink or the handle.
C33_LogBeforeDelegate ==
    /\ Len(lgSink) \in {2 * Len(lgCalls) - 1, 2 * Len(lgCalls)}
    /\ Cardinality({j \in 1..Len(lgSink) : lgSink[j].to = "sink"}) = Len(lgCalls)
    /\ \A i \in 1..Len(lgCalls) :
           LET call == lgCalls[i]
               rec == lgSink[2 * i - 1]
           IN  /\ rec.to = "sink"
               /\ rec.method = call.method
               /\ rec.query = call.query
               /\ rec.args = call.args
               /\ rec.ctx = IF call.method \in ContextMethods
                            THEN call.ctx ELSE Background
               /\ 2 * i <= Len(lgSink) =>
                      lgSink[2 * i] = LgEvent("handle", call.method,
                                              call.method \in ContextMethods,
                                              call.ctx, call.query, call.args)

\* C33 witness: Exec with an argument and QueryRowContext with a context of
\* its own have both been logged and delegated.
C33_Witness ==
    /\ Len(lgCalls) = 2
    /\ Len(lgSink) = 4
    /\ lgCalls[1].method = "Exec"
    /\ lgCalls[1].args = <<1>>
    /\ lgCalls[2].method = "QueryRowContext"
    /\ lgCalls[2].ctx # Background
    /\ lgSink[1].ctx = Background
    /\ lgSink[3].ctx = lgCalls[2].ctx

\* --------------------------------------------------------------- lock keys

\* A machine word is its 16-bit limbs, most significant first: two limbs
\* for uint32 and int32, four for uint64 and int64.  A signed word is in
\* two's complement.
Limb == 2^16
HalfLimb == 2^15

MaxInt32 == <<HalfLimb - 1, Limb - 1>>
MaxInt64 == <<HalfLimb - 1, Limb - 1, Limb - 1, Limb - 1>>
MinInt32 == <<HalfLimb, 0>>
MinInt64 == <<HalfLimb, 0, 0, 0>>
MaxUint32 == <<Limb - 1, Limb - 1>>
MaxUint64 == <<Limb - 1, Limb - 1, Limb - 1, Limb - 1>>
OneOf(n) == [i \in 1..n |-> IF i = n THEN 1 ELSE 0]
ZeroOf(n) == [i \in 1..n |-> 0]

\* a < b as unsigned words.
RECURSIVE ULessFrom(_, _, _)
ULessFrom(a, b, i) ==
    IF i > Len(a) THEN FALSE
    ELSE IF a[i] # b[i] THEN a[i] < b[i]
    ELSE ULessFrom(a, b, i + 1)

ULess(a, b) == ULessFrom(a, b, 1)

\* The word with its top bit flipped: as a number, a signed word plus 2^(w-1)
\* read as unsigned, or an unsigned word minus 2^(w-1) read as signed.
FlipTop(a) == [a EXCEPT ![1] = (@ + HalfLimb) % Limb]

IsNeg(a) == a[1] >= HalfLimb

\* a < b as signed words.
SLess(a, b) == ULess(FlipTop(a), FlipTop(b))

\* The borrow into limb i - 1 when b is subtracted from a.
RECURSIVE Borrow(_, _, _)
Borrow(a, b, i) ==
    IF i > Len(a) THEN 0
    ELSE IF a[i] - b[i] - Borrow(a, b, i + 1) < 0 THEN 1 ELSE 0

\* a - b in the w bits of the word (Go wraps around silently).
SubBits(a, b) ==
    [i \in 1..Len(a) |-> (a[i] - b[i] - Borrow(a, b, i + 1) + Limb) % Limb]

\* Unsigned a - b: the word and whether the subtraction wrapped around.
USub(a, b) == [val |-> SubBits(a, b), wrapped |-> Borrow(a, b, 1) = 1]

\* Signed a - b: the word and whether the subtraction overflowed.
SSub(a, b) ==
    [val |-> SubBits(a, b),
     wrapped |-> IsNeg(a) # IsNeg(b) /\ IsNeg(SubBits(a, b)) # IsNeg(a)]

\* int32(u) and int64(u): the same bits; the value changes when the top
\* bit is set.  uint32(i) and uint64(i) of a non-negative constant are exact.
ToSigned(u) == [val |-> u, wrapped |-> IsNeg(u)]

\* Both branches of the conversion, for the width of maxInt.
UintToInt(u, maxInt) ==
    IF ULess(maxInt, u)
    THEN LET d == USub(u, maxInt)
             e == USub(d.val, OneOf(Len(u)))
             c == ToSigned(e.val)
         IN  [val |-> c.val, wrapped |-> d.wrapped \/ e.wrapped \/ c.wrapped]
    ELSE LET c == ToSigned(u)
             d == SSub(c.val, maxInt)
             e == SSub(d.val, OneOf(Len(u)))
         IN  [val |-> e.val, wrapped |-> c.wrapped \/ d.wrapped \/ e.wrapped]

\* The conversion as the plain cast int64(u64).
Uint64ToInt64Cast(u64) == ToSigned(u64)

Uint64ToInt64(u64) == UintToInt(u64, MaxInt64)

Uint32ToInt32(u32) == UintToInt(u32, MaxInt32)

\* The unsigned values converted: every limb at, next to or between the
\* ends of its range; the two middle limbs of a 64-bit word are equal.
KyLimbs == {0, 1, HalfLimb - 1, HalfLimb, Limb - 2, Limb - 1}
KyWords32 == {<<a, b>> : a \in KyLimbs, b \in KyLimbs}
KyWords64 == {<<a, m, m, b>> : a \in KyLimbs, m \in {0, Limb - 1}, b \in KyLimbs}

KyResult == [val |-> <<>>, wrapped |-> FALSE]

KyUint32ToInt32 ==
    /\ kyIn.bits = 32
    /\ ~kyOut.done
    /\ kyOut' = [done |-> TRUE, x |-> Uint32ToInt32(kyIn.u),
                 y |-> Uint32ToInt32(kyIn.v)]
    /\ UNCHANGED <<kyIn, kyRest>>

KyUint64ToInt64 ==
    /\ kyIn.bits = 64
    /\ ~kyOut.done
    /\ kyOut' = [done |-> TRUE, x |-> Uint64ToInt64(kyIn.u),
                 y |-> Uint64ToInt64(kyIn.v)]
    /\ UNCHANGED <<kyIn, kyRest>>

InitKeys ==
    /\ rev = "A"
    /\ TxIdle
    /\ MwIdle
    /\ LkIdle
    /\ ObIdle
    /\ PrIdle
    /\ FlIdle
    /\ LrIdle
    /\ CxIdle
    /\ ScIdle
    /\ LgIdle
    /\ TlIdle
    /\ \/ \E u \in KyWords32, v \in KyWords32 : kyIn = [bits |-> 32, u |-> u, v |-> v]
       \/ \E u \in KyWords64, v \in KyWords64 : kyIn = [bits |-> 64, u |-> u, v |-> v]
    /\ kyOut = [done |-> FALSE, x |-> KyResult, y |-> KyResult]

NextKeys == KyUint32ToInt32 \/ KyUint64ToInt64

SpecKeys == InitKeys /\ [][NextKeys]_vars

\* C34: the conversion of an unsigned word is that word minus 2^(w-1) as a
\* signed word, for w = 32 and w = 64, and no step of the computation wraps
\* around or overflows; 0 gives the least signed value and the greatest
\* unsigned value gives the greatest signed value; of two unsigned words the
\* smaller one gives the smaller signed word, so different words give
\* different keys.
C34_OrderPreserving ==
    kyOut.done =>
        /\ ~kyOut.x.wrapped
        /\ ~kyOut.y.wrapped
        /\ kyOut.x.val = FlipTop(kyIn.u)
        /\ kyOut.y.val = FlipTop(kyIn.v)
        /\ kyIn.u = ZeroOf(Len(kyIn.u)) =>
               kyOut.x.val = IF kyIn.bits = 32 THEN MinInt32 ELSE MinInt64
        /\ kyIn.u = (IF kyIn.bits = 32 THEN MaxUint32 ELSE MaxUint64) =>
               kyOut.x.val = IF kyIn.bits = 32 THEN MaxInt32 ELSE MaxInt64
        /\ ULess(kyIn.u, kyIn.v) => SLess(kyOut.x.val, kyOut.y.val)
        /\ kyIn.u # kyIn.v => kyOut.x.val # kyOut.y.val

\* C34 witness: 0 and the greatest uint64 have been converted, one by each
\* branch, to the least and the greatest int64.
C34_Witness ==
    /\ kyOut.done
    /\ kyIn = [bits |-> 64, u |-> ZeroOf(4), v |-> MaxUint64]
    /\ kyOut.x.val = MinInt64
    /\ kyOut.y.val = MaxInt64

\* ---------------------------------------------------- unit of work try-lock

\* pg_try_advisory_xact_lock(n) in transaction p: true, and the key is held
\* by p until its transaction ends, when no other transaction holds it.
PgTryAdvisoryXactLock(p, held) ==
    [locked |-> held \in {0, p}, held |-> IF held = 0 THEN p ELSE held]

\* The test AtomicTryLock makes on the scanned value: `if locked` it returns
\* ErrAlreadyLocked, otherwise it goes on to fn.
TryLockRefuses(locked) == locked

\* uow.AtomicFn up to the body: the transaction of goroutine p has begun.
TlAtomicFn(p) ==
    /\ tlCall[p].pc \in {"idle", "done"}
    /\ tlCall' = [tlCall EXCEPT ![p] =
           [pc |-> "tx", locked |-> FALSE, ran |-> FALSE, ret |-> Nil]]
    /\ UNCHANGED <<tlHeld, tlRest>>

\* The body up to fn: the statement, the scan and the test.
TlTryLock(p) ==
    LET r == PgTryAdvisoryXactLock(p, tlHeld) IN
    /\ tlCall[p].pc = "tx"
    /\ tlHeld' = r.held
    /\ tlCall' = [tlCall EXCEPT ![p] =
           IF TryLockRefuses(r.locked)
           THEN [@ EXCEPT !.pc = "exit", !.locked = r.locked,
                          !.ret = ErrAlreadyLocked]
           ELSE [@ EXCEPT !.pc = "fn", !.locked = r.locked]]
    /\ UNCHANGED tlRest

\* fn runs and returns e.
TlFn(p, e) ==
    /\ tlCall[p].pc = "fn"
    /\ tlCall' = [tlCall EXCEPT ![p] =
           [@ EXCEPT !.pc = "exit", !.ran = TRUE, !.ret = e]]
    /\ UNCHANGED <<tlHeld, tlRest>>

\* AtomicFn ends the transaction, by Commit or by the deferred Rollback;
\* the database releases the key with it.
TlReturn(p) ==
    /\ tlCall[p].pc = "exit"
    /\ tlCall' = [tlCall EXCEPT ![p].pc = "done"]
    /\ tlHeld' = IF tlHeld = p THEN 0 ELSE tlHeld
    /\ UNCHANGED tlRest

InitTryLock == Init /\ rev = "U"

NextTryLock ==
    \E p \in TlCallers :
        \/ TlAtomicFn(p)
        \/ TlTryLock(p)
        \/ \E e \in {Nil} \cup BodyErrors : TlFn(p, e)
        \/ TlReturn(p)

SpecTryLock == InitTryLock /\ [][NextTryLock]_vars

\* C35: of the goroutines in AtomicTryLock on one key, the one whose
\* statement took the key runs its fn and does not fail with
\* ErrAlreadyLocked; one whose statement found the key taken fails with
\* ErrAlreadyLocked without running its fn; so a goroutine is in fn only
\* while its transaction holds the key, and never two at once.
C35_FirstRunsOthersFail ==
    /\ \A p \in TlCallers :
           /\ tlCall[p].pc = "fn" => tlHeld = p
           /\ (tlCall[p].pc \in {"exit", "done"} /\ tlCall[p].locked) =>
                  /\ tlCall[p].ran
                  /\ tlCall[p].ret # ErrAlreadyLocked
           /\ (tlCall[p].pc \in {"fn", "exit", "done"} /\ ~tlCall[p].locked) =>
                  /\ ~tlCall[p].ran
                  /\ tlCall[p].pc # "fn"
                  /\ tlCall[p].ret = ErrAlreadyLocked
    /\ Cardinality({p \in TlCallers : tlCall[p].pc = "fn"}) <= 1

\* C39: an Outbox.RunInTx called in the body of another leaves the table and
\* the state of the transaction as they were when it returns, and the rows
\* of its messages, when it returns nil, are inserted on the transaction of
\* the outermost call; when the outermost call ends, the table is extended
\* by the rows of the transaction, the inner ones included, if the
\* transaction is committed, and is as it was before the call otherwise; a
\* failed outermost body never commits.
C39_InnerRowsFollowOutermost ==
    /\ [][(/\ obStack # <<>>
           /\ obStack[Len(obStack)].mode = "reenter"
           /\ Len(obStack') = Len(obStack) - 1)
              => /\ obTable' = obTable
                 /\ obTx'.state = obTx.state
                 /\ obTx.state = "open"
                 /\ (obLast'.ret = Nil /\ obLast'.pan = NoPanic) =>
                        obTx'.rows = obTx.rows \o AsRows(obStack[Len(obStack)].ob)
                 /\ obLast'.ret # Nil => obTx'.rows = obTx.rows]_vars
    /\ []((ObDone /\ obLast.outer) =>
              /\ obTable = IF obTx.state = "committed"
                           THEN obLast.table \o obTx.rows
                           ELSE obLast.table
              /\ obLast.out \in {"err", "panic"} => obTx.state # "committed")

\* C39 witness: an inner call inserted the row of its message on the
\* transaction and returned nil, then the outermost body returned an error:
\* the transaction is rolled back and the table is empty.
C39_Witness ==
    /\ ObDone
    /\ obLast.outer
    /\ obLast.out = "err"
    /\ obLast.ob = <<>>
    /\ Len(obTx.rows) = 1
    /\ obTx.done = obTx.rows
    /\ obTx.state = "rolledback"
    /\ obTable = <<>>

\* The same inner call under an outermost call that returned nil: the row
\* is durable.
C39_WitnessCommitted ==
    /\ ObDone
    /\ obLast.outer
    /\ obLast.ret = Nil
    /\ obLast.ob = <<>>
    /\ Len(obTx.rows) = 1
    /\ obTx.state = "committed"
    /\ obTable = obTx.rows

\* ------------------------------------------- LoadAndDelete without RunInTx

OutsideTx == "LoadAndDelete outside RunInTx"

\* Worker w calls OutBox.LoadAndDelete with a context that carries no
\* transaction: o.db(ctx) is built on DBTx(ctx), which gives the pool, and
\* the pool runs the DELETE as a transaction of its own, durable when the
\* statement returns.  The caller then processes the event with result e
\* (or passes on the error it got).
PrLoadOutside(w, e) ==
    LET locked == {prWork[v].row : v \in Workers \ {w}} \ {0}
        h == Get(rev, "DBTx", Pool, Background).handle
        d == Delete(prTable, locked)
        l == LoadAndDelete(d)
        durable == l.err = Nil /\ h.kind = "db"
    IN  /\ prRev = "LoadAndDelete"
        /\ prWork[w].pc = "idle"
        /\ l.err # Nil => e = l.err
        /\ prTable' = IF durable THEN Without(prTable, l.evt) ELSE prTable
        /\ prLog' = IF durable THEN Append(prLog, l.evt) ELSE prLog
        /\ prLast' = PrResult(OutsideTx, w, e, l.evt, l.err = Nil, e, durable,
                              prTable, locked \cap Ids(prTable))
        /\ UNCHANGED <<prRev, prInserted, prWork, prRest>>

InitLoadOutside == InitProcess /\ prRev = "LoadAndDelete"

NextLoadOutside ==
    \/ \E msgs \in MsgLists : PrInsert(msgs)
    \/ \E w \in Workers : PrProcess(w)
    \/ \E w \in Workers, e \in {Nil} \cup BodyErrors, failCommit \in BOOLEAN :
           PrHandler(w, e, failCommit)
    \/ \E w \in Workers, e \in {Nil, ErrNoRows} \cup BodyErrors :
           PrLoadOutside(w, e)

SpecLoadOutside == InitLoadOutside /\ [][NextLoadOutside]_vars

\* C40: a LoadAndDelete called without a transaction makes no deletion
\* durable, and whenever the processing of a loaded row returned an error
\* the row is still in the table.
C40_DeleteOnlyInTx ==
    /\ prLast.op = OutsideTx => ~prLast.committed
    /\ (prLast.row # 0 /\ prLast.handler # Nil) => prLast.row \in Ids(prTable)

====
